---- MODULE Spec2Model ----
(***************************************************************************)
(* Router-side WAMP session core of crossbar/router/session.py.            *)
(*                                                                         *)
(* One RouterSession on one transport, the router realm it attaches to,    *)
(* the cookie store of the transport factory and the authentication        *)
(* futures in flight.  Every handler of the session (onOpen, onMessage,    *)
(* the callbacks of an authentication future, leave, onClose) is one       *)
(* action; the handler's body is an operator on a record of the object     *)
(* fields (W), written in the order of the Python statements.              *)
(*                                                                         *)
(* None is "None" for strings and 0 for session ids (util.id() > 0).       *)
(***************************************************************************)
EXTENDS Integers, Sequences, FiniteSets, TLC

\* ------------------------------------------------------------- bounds --
\* messages the peer sends on one transport
MaxMsgs == 4
\* authentication futures in flight at once
MaxFutures == 2
\* detach calls the reactor holds at once
MaxCalls == 2
\* messages handed to send() of one embedded session
MaxSends == 3
\* testament messages a session holds per scope
MaxTestaments == 1
\* wrappers a RouterSessionFactory constructs
MaxWrappers == 4

VARIABLES
    phase,                \* "new" (constructed), "open" (after onOpen), "closed" (after onClose)
    transport,            \* self._transport: "None" or "open"
    tp,                   \* attributes of the transport object (pre-auth identity, cookie id, auth config)
    session_id,           \* self._session_id
    pending_session_id,   \* self._pending_session_id
    previous_session_id,  \* self._previous_session_id
    realm,                \* self._realm
    router,               \* self._router: "None" or the realm whose router it is
    goodbye_sent,         \* self._goodbye_sent
    pending_auth,         \* self._pending_auth
    service_session,      \* self._service_session is not None
    session_details,      \* self._session_details
    authid, authrole, authmethod, authprovider,
    authextra,            \* self._authextra (None and {} alike: the empty mapping)
    attached,             \* router: ids under which this session is in the attachment table
    realm_session,        \* the realm has a service session (router._realm.session)
    realm_stats,          \* the 'stats' block of the realm's configuration
    testaments,           \* self._testaments: how many messages each scope holds
    stats_enabled,        \* self._stats_enabled
    stats_trigger_on_leave,     \* self._stats_trigger_on_leave
    stats_has_triggered_first,  \* self._stats_has_triggered_first
    stats_session,        \* the session id the serializer's on_stats callback holds (0: no callback)
    app_sessions,         \* RouterSessionFactory._app_sessions: application session -> its wrapper
    wrappers,             \* RouterApplicationSession objects constructed so far
    cookiestore,          \* cookie store entry of cookie id "X"
    received,             \* messages delivered to onMessage so far
    futures,              \* authentication futures not yet resolved: [kind, method] -> how many
    calls,                \* reactor.callLater(0, detach, session) calls not yet run
    jchain,               \* embedded session: the stage its join chain waits on (0: none)
    gchain,               \* embedded session: the stage a do_goodbye() waits on (0: none)
    got,                  \* the authentication result the last handler was given (observation)
    evts,                 \* what the last handler did, in order (observation)
    last                  \* which handler ran last, on what input (observation)

vars == <<phase, transport, tp, session_id, pending_session_id, previous_session_id,
          realm, router, goodbye_sent, pending_auth, service_session, session_details,
          authid, authrole, authmethod, authprovider, authextra, attached, realm_session,
          realm_stats, testaments, stats_enabled, stats_trigger_on_leave,
          stats_has_triggered_first, stats_session, app_sessions, wrappers, cookiestore,
          received, futures, calls, jchain, gchain, got, evts, last>>

\* ---------------------------------------------------------- environment --
\* realms of the router factory, and the roles of each
RouterRealms == {"realm1"}
RealmRoles == {"anonymous", "user"}

\* crossbar.router.auth.AUTHMETHODS and the keys of AUTHMETHOD_MAP
AUTHMETHODS == {"anonymous", "anonymous-proxy", "ticket", "wampcra", "tls",
                "cryptosign", "cryptosign-proxy", "scram", "cookie"}
\* (a worker without the cryptosign dependency: those methods have no entry)
AUTHMETHOD_MAP == AUTHMETHODS \ {"cryptosign", "cryptosign-proxy"}
\* personality.EXTRA_AUTH_METHODS
extra_auth_methods == {}

\* an authextra mapping is a function from its keys; None is the empty one
NoExtra == [k \in {} |-> "None"]
\* the keys welcome() stamps, with the values of this router worker and peer
RouterStamp == [x_cb_node |-> "node1", x_cb_worker |-> "worker1", x_cb_peer |-> "peer1",
                x_cb_pid |-> "pid1"]
XCbKeys == DOMAIN RouterStamp
\* authextra of a peer or authenticator that sets reserved keys itself
ForgedExtra == [x_cb_node |-> "forged", transport |-> "frontend"]

NoDetails == [realm |-> "None", session |-> 0, authid |-> "None", authrole |-> "None",
              authmethod |-> "None", authprovider |-> "None", authextra |-> NoExtra]
NoCookie == [known |-> FALSE, authid |-> "None", authrole |-> "None",
             authmethod |-> "None", authextra |-> NoExtra, realm |-> "None"]
\* no authentication result
NoResult == [kind |-> "None", realm |-> "None", authid |-> "None", authrole |-> "None",
             authmethod |-> "None", authprovider |-> "None", authextra |-> NoExtra,
             reason |-> "None", message |-> "None"]

\* transports a session can be opened on
PlainTransport ==
    [authid |-> "None", authrole |-> "None", authmethod |-> "None", authprovider |-> "None",
     authrealm |-> "None", authextra |-> NoExtra, cbtid |-> "None", hdr_cbtid |-> "None",
     auth |-> {}]
AuthTransport ==
    [authid |-> "None", authrole |-> "None", authmethod |-> "None", authprovider |-> "None",
     authrealm |-> "None", authextra |-> NoExtra, cbtid |-> "X", hdr_cbtid |-> "X",
     auth |-> {"anonymous", "wampcra", "cookie", "cryptosign"}]
TrustedTransport ==
    [authid |-> "svc", authrole |-> "user", authmethod |-> "trusted", authprovider |-> "None",
     authrealm |-> "None", authextra |-> NoExtra, cbtid |-> "None", hdr_cbtid |-> "None",
     auth |-> {}]
CookieTransport ==
    [authid |-> "alice", authrole |-> "user", authmethod |-> "wampcra", authprovider |-> "cookie",
     authrealm |-> "realm1", authextra |-> RouterStamp, cbtid |-> "X", hdr_cbtid |-> "X",
     auth |-> {"wampcra", "cookie"}]
\* pre-authenticated with a role the realm no longer has
StaleTransport ==
    [authid |-> "bob", authrole |-> "gone", authmethod |-> "trusted", authprovider |-> "None",
     authrealm |-> "None", authextra |-> NoExtra, cbtid |-> "None", hdr_cbtid |-> "None",
     auth |-> {}]
Transports == {PlainTransport, AuthTransport, TrustedTransport, CookieTransport,
               StaleTransport}

\* the cookie store entry a transport finds when it connects
InitialCookie(t) ==
    IF t.authprovider = "cookie"
    THEN [known |-> TRUE, authid |-> t.authid, authrole |-> t.authrole,
          authmethod |-> t.authmethod, authextra |-> t.authextra, realm |-> t.authrealm]
    ELSE NoCookie

\* inputs of the peer
HelloRealms == {"realm1", "nosuch"}
HelloAuthmethods == {<<>>, <<"anonymous">>, <<"wampcra">>, <<"cookie", "ticket">>,
                     <<"wampcra", "cookie">>, <<"ticket", "cookie">>, <<"bogus">>,
                     <<"cookie", "wampcra">>, <<"cryptosign", "wampcra">>,
                     <<"wampcra", "bogus">>, <<"bogus", "anonymous">>}
HelloAuthextras == {NoExtra, [x_cb_pid |-> "forged"]}
CloseReasons == {"wamp.close.normal", "wamp.close.logout"}
\* realm configurations: without a 'stats' block, or with one (an interim
\* trigger is always configured) and its trigger_on_join / trigger_on_leave
NoStats == [configured |-> FALSE, trigger_on_join |-> FALSE, trigger_on_leave |-> FALSE]
StatsConfigs ==
    {NoStats} \cup {[configured |-> TRUE, trigger_on_join |-> j, trigger_on_leave |-> l] :
                       j \in BOOLEAN, l \in BOOLEAN}
NoTestaments == [detached |-> 0, destroyed |-> 0]
\* the application sessions handed to a RouterSessionFactory
AppSessions == {"app1", "app2", "app3"}
\* no entry in _app_sessions
NoWrapper == [id |-> 0, authid |-> "None"]

\* ------------------------------------------------------------ plumbing --
\* the fields a handler reads and writes, as one record
W ==
    [transport |-> transport, tp |-> tp, session_id |-> session_id,
     pending_session_id |-> pending_session_id,
     previous_session_id |-> previous_session_id, realm |-> realm, router |-> router,
     goodbye_sent |-> goodbye_sent, pending_auth |-> pending_auth,
     service_session |-> service_session, session_details |-> session_details,
     authid |-> authid, authrole |-> authrole, authmethod |-> authmethod,
     authprovider |-> authprovider, authextra |-> authextra, attached |-> attached,
     cookiestore |-> cookiestore, testaments |-> testaments,
     stats_enabled |-> stats_enabled, stats_trigger_on_leave |-> stats_trigger_on_leave,
     stats_has_triggered_first |-> stats_has_triggered_first,
     stats_session |-> stats_session, app_sessions |-> app_sessions,
     wrappers |-> wrappers,
     futures |-> futures, calls |-> calls, jchain |-> jchain, gchain |-> gchain,
     got |-> NoResult, evts |-> <<>>, exc |-> "None", res |-> "None"]

\* the handler returned (or raised) in state w
Commit(w) ==
    /\ transport' = w.transport
    /\ tp' = w.tp
    /\ session_id' = w.session_id
    /\ pending_session_id' = w.pending_session_id
    /\ previous_session_id' = w.previous_session_id
    /\ realm' = w.realm
    /\ router' = w.router
    /\ goodbye_sent' = w.goodbye_sent
    /\ pending_auth' = w.pending_auth
    /\ service_session' = w.service_session
    /\ session_details' = w.session_details
    /\ authid' = w.authid
    /\ authrole' = w.authrole
    /\ authmethod' = w.authmethod
    /\ authprovider' = w.authprovider
    /\ authextra' = w.authextra
    /\ attached' = w.attached
    /\ cookiestore' = w.cookiestore
    /\ testaments' = w.testaments
    /\ stats_enabled' = w.stats_enabled
    /\ stats_trigger_on_leave' = w.stats_trigger_on_leave
    /\ stats_has_triggered_first' = w.stats_has_triggered_first
    /\ stats_session' = w.stats_session
    /\ app_sessions' = w.app_sessions
    /\ wrappers' = w.wrappers
    /\ futures' = w.futures
    /\ calls' = w.calls
    /\ jchain' = w.jchain
    /\ gchain' = w.gchain
    /\ got' = w.got
    /\ evts' = w.evts
    /\ UNCHANGED <<realm_session, realm_stats>>

\* an observable step of a handler: t is its kind, a and n its arguments; the
\* session's id, goodbye flag, attachment and transport at that moment go with it
EmitX(w, t, a, n, x) ==
    [w EXCEPT !.evts = Append(@, [t |-> t, a |-> a, n |-> n, x |-> x,
                                  sid |-> w.session_id, gs |-> w.goodbye_sent,
                                  att |-> (w.attached # {}), tr |-> w.transport])]
Emit(w, t, a, n) == EmitX(w, t, a, n, "None")

\* an exception leaves the handler
Raise(w, e) == [Emit(w, "raise", e, 0) EXCEPT !.exc = e]
\* try: ... except Exception: (logged)
Caught(w) == [w EXCEPT !.exc = "None"]

\* self._transport.send(msg); on a None transport Python raises AttributeError
TransportSend(w, frame, n, x) ==
    IF w.transport = "None" THEN Raise(w, "AttributeError")
    ELSE EmitX(w, "send", frame, n, x)

\* service_session.publish(topic, ...)
Publish(w, topic, n) == Emit(w, "publish", topic, n)

\* the 'first' and 'last' flags of a stats record
StatsFlags(first, final) ==
    IF first /\ final THEN "first,last"
    ELSE IF first THEN "first"
    ELSE IF final THEN "last"
    ELSE "interim"
\* service_session.publish('wamp.session.on_stats', session_info_short, session_stats)
PublishStats(w, n, first, final) ==
    EmitX(w, "publish", "wamp.session.on_stats", n, StatsFlags(first, final))

Range(f) == {f[i] : i \in DOMAIN f}

\* ------------------------------------------------- results of onHello --
Res(kind, r, aid, arole, amethod, aprovider, aextra, reason) ==
    [kind |-> kind, realm |-> r, authid |-> aid, authrole |-> arole,
     authmethod |-> amethod, authprovider |-> aprovider, authextra |-> aextra,
     reason |-> reason, message |-> "None"]
Accept(r, aid, arole, amethod, aprovider, aextra) ==
    Res("Accept", r, aid, arole, amethod, aprovider, aextra, "None")
Challenge(method) == Res("Challenge", "None", "None", "None", method, "None", NoExtra, "None")
Deny(reason) == Res("Deny", "None", "None", "None", "None", "None", NoExtra, reason)
\* Deny(reason, message=...)
DenyWith(reason, message) == [Deny(reason) EXCEPT !.message = message]
\* the result is a Deferred: the future of the PendingAuth of `method` is in flight
Deferred(method) == Res("Deferred", "None", "None", "None", method, "None", NoExtra, "None")

NO_AUTH_METHOD == "wamp.error.no_auth_method"
NO_SUCH_REALM == "wamp.error.no_such_realm"
NO_SUCH_ROLE == "wamp.error.no_such_role"
\* Deny() without a reason
NOT_AUTHORIZED == "wamp.error.not_authorized"
\* the messages of the Deny results (without the values formatted into them)
INVALID_AUTHMETHOD == "invalid authmethod"
INTERNAL_ERROR == "internal error"
CANNOT_AUTHENTICATE_1 == "cannot authenticate [1]"
CANNOT_AUTHENTICATE_2 == "cannot authenticate [2]"
NO_REALM == "no realm"
ROLE_GONE == "role no longer exists"
NO_PENDING_AUTH == "no pending authentication"
AUTHORIZATION_FAILED == "wamp.error.authorization_failed"

\* ------------------------------------------------------------- router --
\* router.attach(session): the table is keyed by the session's id at that moment
RouterAttach(w) ==
    IF w.session_id \in w.attached
    THEN Raise(w, "AlreadyAttached")
    ELSE Emit([w EXCEPT !.attached = @ \cup {w.session_id}], "attach", "ok", w.session_id)

\* router.detach(session): raises NotAttached for a session that is not in the table
RouterDetach(w) ==
    IF w.session_id \in w.attached
    THEN Emit([w EXCEPT !.attached = @ \ {w.session_id}], "detach", "ok", w.session_id)
    ELSE [Emit(w, "detach", "NotAttached", w.session_id) EXCEPT !.exc = "NotAttached"]

\* router.process(session, msg)
RouterProcess(w, kind) == Emit(w, "process", kind, w.session_id)

\* ------------------------------------------------------- cookie store --
CookieExists(w, cbtid) == cbtid = "X" /\ w.cookiestore.known
\* (setAuth with no authid revokes the binding: the cookie is invalidated)
CookieSetAuth(w, aid, arole, amethod, aextra, r) ==
    [w EXCEPT !.cookiestore = [known |-> (aid # "None"), authid |-> aid, authrole |-> arole,
                               authmethod |-> amethod, authextra |-> aextra, realm |-> r]]
\* cs.delAuth(cbtid)
CookieDelAuth(w) == [Emit(w, "delAuth", w.tp.cbtid, 0) EXCEPT !.cookiestore = NoCookie]
\* getProtos(cbtid): the transports registered for the cookie id, this session's
\* own ("self") among them
CookieProtos == <<"other1", "self", "other2">>
RECURSIVE KickOthers_all(_, _)
RECURSIVE KickOthers(_, _)

\* --------------------------------------------------------- PendingAuth --
\* The principal a PendingAuth of `method` assigns: a realm of the router (it
\* denies a realm the router does not have), with the authid and role of its
\* configuration or of its dynamic authenticator.
Principal(method) ==
    Accept("realm1", IF method = "anonymous" THEN "anon" ELSE "alice",
           IF method = "anonymous" THEN "anonymous" ELSE "user", method,
           IF method = "anonymous" THEN "static" ELSE "dynamic",
           IF method = "anonymous" THEN NoExtra ELSE ForgedExtra)

\* PendingAuth.hello(realm, details) of `method`, answering `out`
PendingHello(method, out) ==
    IF out = "Accept" THEN Principal(method)
    ELSE IF out = "Challenge" THEN Challenge(method)
    ELSE IF out = "NoRealm" THEN Deny(NO_SUCH_REALM)
    ELSE Deny(NOT_AUTHORIZED)

\* PendingAuth.authenticate(signature) of `method`, answering `out`
PendingAuthenticate(method, out) ==
    IF out = "Accept" THEN Principal(method) ELSE Deny(NOT_AUTHORIZED)

\* the answer of PendingAuth.hello for a realm: a realm the router does not
\* have is denied whatever the credentials
HelloAnswer(r, out) == IF r \notin RouterRealms /\ out # "Deferred" THEN "NoRealm" ELSE out

\* ------------------------------------------------------------ onJoin --
\* (variant: every join is written to the cookie store)
onJoin_binds_always(w, details) ==
    LET w1 == CookieSetAuth(w, details.authid, details.authrole,
                            details.authmethod, details.authextra, w.realm)
        w2 == [w1 EXCEPT !.service_session = realm_session, !.session_details = details]
        w3 == Emit(w2, "session_joined", "router", details.session)
    IN IF w3.service_session
       THEN Publish(w3, "wamp.session.on_join", details.session)
       ELSE w3

\* (variant: the meta-event is published before the router is told of the join,
\* and again after it)
onJoin_publishes_early(w, details) ==
    LET w1 == [w EXCEPT !.service_session = realm_session, !.session_details = details]
        w2 == IF w1.service_session
              THEN Publish(w1, "wamp.session.on_join", details.session)
              ELSE w1
    IN onJoin_binds_always(w2, details)

\* the statistics part of onJoin
JoinStats(w, details) ==
    IF realm_stats.configured
    THEN LET w1 == [w EXCEPT !.stats_trigger_on_leave = realm_stats.trigger_on_leave]
             w2 == IF realm_stats.trigger_on_join
                   THEN [PublishStats(w1, details.session, TRUE, FALSE)
                             EXCEPT !.stats_has_triggered_first = TRUE]
                   ELSE [w1 EXCEPT !.stats_has_triggered_first = FALSE]
         IN [w2 EXCEPT !.stats_session = details.session, !.stats_enabled = TRUE]
    ELSE [w EXCEPT !.stats_enabled = FALSE]

onJoin(w, details) ==
    LET w1 == IF w.transport # "None" /\ w.tp.cbtid # "None" /\ details.authmethod # "cookie"
              THEN CookieSetAuth(w, details.authid, details.authrole,
                                 details.authmethod, details.authextra, w.realm)
              ELSE w
        w2 == [w1 EXCEPT !.service_session = realm_session, !.session_details = details]
        w3 == Emit(w2, "session_joined", "router", details.session)
    IN IF w3.service_session
       THEN JoinStats(Publish(w3, "wamp.session.on_join", details.session), details)
       ELSE w3

\* ----------------------------------------------------------- onLeave --
\* (variant: every transport of the cookie id is closed)
KickOthers_all(w, i) ==
    IF i > Len(CookieProtos) THEN w
    ELSE KickOthers_all(Emit(w, "sendClose", CookieProtos[i], 0), i + 1)

\* for proto in cs.getProtos(cbtid): if proto != self._transport: proto.sendClose()
KickOthers(w, i) ==
    IF i > Len(CookieProtos) THEN w
    ELSE KickOthers(IF CookieProtos[i] # "self"
                    THEN Emit(w, "sendClose", CookieProtos[i], 0)
                    ELSE w, i + 1)

\* (variant: the meta-event is published whether or not the session id is set)
onLeave_unconditional(w, reason) ==
    LET w0 == Emit(w, "onLeave", reason, 0)
        w1 == IF w0.router # "None"
              THEN Emit(w0, "session_left", "router", w0.session_id)
              ELSE w0
        w2 == IF w1.service_session
              THEN Publish(w1, "wamp.session.on_leave", w1.session_id)
              ELSE w1
        w3 == [w2 EXCEPT !.session_details = NoDetails]
    IN IF reason = "wamp.close.logout" /\ w3.transport # "None" /\ w3.tp.cbtid # "None"
       THEN KickOthers(CookieDelAuth(w3), 1)
       ELSE w3

\* for msg in self._testaments[scope]: self._router.process(self, msg)
RECURSIVE ProcessTestaments(_, _, _)
ProcessTestaments(w, scope, n) ==
    IF n = 0 THEN w ELSE ProcessTestaments(RouterProcess(w, scope), scope, n - 1)

\* the statistics part of onLeave
LeaveStats(w) ==
    IF w.stats_enabled /\ w.stats_trigger_on_leave /\ w.transport # "None"
    THEN [PublishStats(w, w.session_id, ~w.stats_has_triggered_first, TRUE)
              EXCEPT !.stats_has_triggered_first = TRUE]
    ELSE w

onLeave(w, reason) ==
    LET w0 == Emit(w, "onLeave", reason, 0)
        w1 == IF w0.router # "None"
              THEN Emit(ProcessTestaments(
                            ProcessTestaments(w0, "detached", w0.testaments.detached),
                            "destroyed", w0.testaments.destroyed),
                        "session_left", "router", w0.session_id)
              ELSE w0
        w2 == IF w1.service_session /\ w1.session_id # 0
              THEN LeaveStats(Publish(w1, "wamp.session.on_leave", w1.session_id))
              ELSE w1
        w3 == [w2 EXCEPT !.session_details = NoDetails]
    IN IF reason = "wamp.close.logout" /\ w3.transport # "None" /\ w3.tp.cbtid # "None"
       THEN KickOthers(CookieDelAuth(w3), 1)
       ELSE w3

\* ----------------------------------------------------------- welcome --
\* (variant: a key the Accept carries is kept)
Stamped_setdefault(aextra) ==
    [k \in DOMAIN aextra \cup XCbKeys |->
        IF k \in DOMAIN aextra THEN aextra[k] ELSE RouterStamp[k]]
\* self._authextra = authextra or {}, then the four router keys are set
Stamped(aextra) ==
    [k \in DOMAIN aextra \cup XCbKeys |->
        IF k \in XCbKeys THEN RouterStamp[k] ELSE aextra[k]]
\* dict.pop(key)
Without(aextra, key) == [k \in DOMAIN aextra \ {key} |-> aextra[k]]

\* (variant: goodbye_sent is not reset)
welcome_keeps_goodbye_sent(w, res) ==
    LET w1 == [w EXCEPT !.realm = res.realm,
                        !.session_id = w.pending_session_id,
                        !.pending_session_id = 0,
                        !.router = IF res.realm \in RouterRealms THEN res.realm ELSE "None"]
    IN IF w1.router = "None" THEN Raise(w1, "LogicError")
       ELSE
       LET w2 == [w1 EXCEPT !.authid = res.authid, !.authrole = res.authrole,
                            !.authmethod = res.authmethod,
                            !.authprovider = res.authprovider,
                            !.authextra = Stamped(res.authextra)]
           w3 == RouterAttach(w2)
           msg == [realm |-> res.realm, authid |-> res.authid, authrole |-> res.authrole,
                   authmethod |-> res.authmethod, authprovider |-> res.authprovider,
                   authextra |-> w3.authextra]
           w4 == TransportSend(w3, "WELCOME", w3.session_id, msg)
           \* a 'transport' entry of the authextra is taken out for the details
           w5 == [w4 EXCEPT !.authextra = Without(@, "transport")]
           details == [realm |-> w5.realm, session |-> w5.session_id,
                       authid |-> w5.authid, authrole |-> w5.authrole,
                       authmethod |-> w5.authmethod, authprovider |-> w5.authprovider,
                       authextra |-> w5.authextra]
       IN IF w3.exc # "None" THEN w3
          \* message.welcome asserts that the session id is an int
          ELSE IF w3.session_id = 0 THEN Raise(w3, "AssertionError")
          ELSE IF w4.exc # "None" THEN w4
          ELSE onJoin(w5, details)

welcome(w, res) ==
    LET w1 == [w EXCEPT !.realm = res.realm,
                        !.session_id = w.pending_session_id,
                        !.pending_session_id = 0,
                        !.goodbye_sent = FALSE,
                        !.router = IF res.realm \in RouterRealms THEN res.realm ELSE "None"]
    IN IF w1.router = "None" THEN Raise(w1, "LogicError")
       ELSE
       LET w2 == [w1 EXCEPT !.authid = res.authid, !.authrole = res.authrole,
                            !.authmethod = res.authmethod,
                            !.authprovider = res.authprovider,
                            !.authextra = Stamped(res.authextra)]
           w3 == RouterAttach(w2)
           msg == [realm |-> res.realm, authid |-> res.authid, authrole |-> res.authrole,
                   authmethod |-> res.authmethod, authprovider |-> res.authprovider,
                   authextra |-> w3.authextra]
           w4 == TransportSend(w3, "WELCOME", w3.session_id, msg)
           \* a 'transport' entry of the authextra is taken out for the details
           w5 == [w4 EXCEPT !.authextra = Without(@, "transport")]
           details == [realm |-> w5.realm, session |-> w5.session_id,
                       authid |-> w5.authid, authrole |-> w5.authrole,
                       authmethod |-> w5.authmethod, authprovider |-> w5.authprovider,
                       authextra |-> w5.authextra]
       IN IF w3.exc # "None" THEN w3
          \* message.welcome asserts that the session id is an int
          ELSE IF w3.session_id = 0 THEN Raise(w3, "AssertionError")
          ELSE IF w4.exc # "None" THEN w4
          ELSE onJoin(w5, details)

\* ----------------------------------------------------------- onHello --
\* the loop over the offered authmethods, from position i on
\* (variant: a method that cannot be used ends the scan)
ScanAuthmethods_first_only(w, authmethods, i, r, out) ==
    LET m == authmethods[i]
        exhausted == [w |-> w, res |-> DenyWith(NO_AUTH_METHOD, CANNOT_AUTHENTICATE_2)]
    IN IF m \notin AUTHMETHODS /\ m \notin extra_auth_methods
       THEN [w |-> w, res |-> DenyWith(NOT_AUTHORIZED, INVALID_AUTHMETHOD)]
       ELSE IF m \notin w.tp.auth \/ (m \notin AUTHMETHOD_MAP /\ m \notin extra_auth_methods)
       THEN exhausted
       ELSE IF m # "cookie"
       THEN [w |-> [w EXCEPT !.pending_auth = m],
             res |-> IF HelloAnswer(r, out) = "Deferred" THEN Deferred(m)
                     ELSE PendingHello(m, HelloAnswer(r, out))]
       ELSE IF w.tp.hdr_cbtid # "None" /\ CookieExists(w, w.tp.hdr_cbtid)
       THEN [w |-> w,
             res |-> Accept(w.cookiestore.realm, w.cookiestore.authid,
                            w.cookiestore.authrole, w.cookiestore.authmethod,
                            "cookie", w.cookiestore.authextra)]
       ELSE exhausted

\* (variant: an unknown method is skipped like an unconfigured one)
RECURSIVE ScanAuthmethods_skips_unknown(_, _, _, _, _)
ScanAuthmethods_skips_unknown(w, authmethods, i, r, out) ==
    IF i > Len(authmethods)
    THEN [w |-> w, res |-> DenyWith(NO_AUTH_METHOD, CANNOT_AUTHENTICATE_2)]
    ELSE
    LET m == authmethods[i]
    IN IF m \notin w.tp.auth \/ (m \notin AUTHMETHOD_MAP /\ m \notin extra_auth_methods)
       THEN ScanAuthmethods_skips_unknown(w, authmethods, i + 1, r, out)
       ELSE IF m # "cookie"
       THEN [w |-> [w EXCEPT !.pending_auth = m],
             res |-> IF HelloAnswer(r, out) = "Deferred" THEN Deferred(m)
                     ELSE PendingHello(m, HelloAnswer(r, out))]
       ELSE IF w.tp.hdr_cbtid # "None" /\ CookieExists(w, w.tp.hdr_cbtid)
       THEN [w |-> w,
             res |-> Accept(w.cookiestore.realm, w.cookiestore.authid,
                            w.cookiestore.authrole, w.cookiestore.authmethod,
                            "cookie", w.cookiestore.authextra)]
       ELSE ScanAuthmethods_skips_unknown(w, authmethods, i + 1, r, out)

RECURSIVE ScanAuthmethods(_, _, _, _, _)
ScanAuthmethods(w, authmethods, i, r, out) ==
    IF i > Len(authmethods)
    THEN [w |-> w, res |-> DenyWith(NO_AUTH_METHOD, CANNOT_AUTHENTICATE_2)]
    ELSE
    LET m == authmethods[i]
    IN IF m \notin AUTHMETHODS /\ m \notin extra_auth_methods
       THEN [w |-> w, res |-> DenyWith(NOT_AUTHORIZED, INVALID_AUTHMETHOD)]
       ELSE IF m \notin w.tp.auth
       THEN ScanAuthmethods(w, authmethods, i + 1, r, out)
       ELSE IF m \notin AUTHMETHOD_MAP /\ m \notin extra_auth_methods
       THEN ScanAuthmethods(w, authmethods, i + 1, r, out)
       ELSE IF m \in ({"anonymous", "anonymous-proxy", "ticket", "wampcra", "tls",
                       "cryptosign", "cryptosign-proxy", "scram"} \cup extra_auth_methods)
       THEN [w |-> [w EXCEPT !.pending_auth = m],
             res |-> IF HelloAnswer(r, out) = "Deferred" THEN Deferred(m)
                     ELSE PendingHello(m, HelloAnswer(r, out))]
       ELSE IF m = "cookie"
       THEN IF w.tp.hdr_cbtid # "None" /\ CookieExists(w, w.tp.hdr_cbtid)
            THEN [w |-> w,
                  res |-> Accept(w.cookiestore.realm, w.cookiestore.authid,
                                 w.cookiestore.authrole, w.cookiestore.authmethod,
                                 "cookie", w.cookiestore.authextra)]
            ELSE ScanAuthmethods(w, authmethods, i + 1, r, out)
       \* raise Exception("logic error"), caught by onHello
       ELSE [w |-> w, res |-> DenyWith(NOT_AUTHORIZED, INTERNAL_ERROR)]

\* onHello(realm, details): the state it leaves and what it returns; `out` is
\* the answer of PendingAuth.hello should it be called ("Deferred": a Deferred)
\* (variant: the offered authmethods are taken as they are)
EffectiveAuthmethods_as_offered(offered) == offered

\* authmethods = details.authmethods or ['anonymous']
EffectiveAuthmethods(offered) == IF offered = <<>> THEN <<"anonymous">> ELSE offered

\* (variant: the role is not looked up)
has_role_unchecked(r, role) == TRUE

\* self._router_factory[realm].has_role(authrole), for a realm of the router
has_role(r, role) == role \in RealmRoles

onHello(w, hrealm, offered, hextra, out) ==
    LET authmethods == EffectiveAuthmethods(offered)
        withCookie == "cookie" \in Range(authmethods)
        restore == w.tp.authrealm # "None" /\ withCookie
        revoke == w.tp.authrealm # "None" /\ ~withCookie /\ w.tp.authprovider = "cookie"
        r == IF restore THEN w.tp.authrealm ELSE hrealm
        aextra == IF restore THEN w.tp.authextra ELSE hextra
        w1 == IF revoke
              THEN LET wr == [w EXCEPT !.tp.authmethod = "None", !.tp.authrealm = "None",
                                       !.tp.authid = "None"]
                   IN IF wr.tp.cbtid # "None"
                      THEN CookieSetAuth(wr, "None", "None", "None", NoExtra, "None")
                      ELSE wr
              ELSE w
        t == w1.tp
    IN IF t.authid # "None" /\ (t.authmethod = "trusted" \/ t.authprovider \in Range(authmethods))
       THEN \* already authenticated by the transport
            IF r \notin RouterRealms
            THEN \* KeyError, caught
                 [w |-> w1, res |-> DenyWith(NOT_AUTHORIZED, INTERNAL_ERROR)]
            ELSE IF has_role(r, t.authrole)
            THEN [w |-> w1, res |-> Accept(r, t.authid, t.authrole, t.authmethod,
                                           t.authprovider, aextra)]
            ELSE [w |-> w1, res |-> DenyWith(NO_SUCH_ROLE, ROLE_GONE)]
       ELSE IF t.auth = {}
       THEN \* authentication is not configured: anyone may join as anonymous
            IF "anonymous" \notin Range(authmethods)
            THEN [w |-> w1, res |-> DenyWith(NO_AUTH_METHOD, CANNOT_AUTHENTICATE_1)]
            ELSE IF r = "None" \/ r \notin RouterRealms
            THEN [w |-> w1, res |-> DenyWith(NO_SUCH_REALM, NO_REALM)]
            ELSE [w |-> [w1 EXCEPT !.pending_auth = "anonymous"],
                  res |-> IF out = "Deferred" THEN Deferred("anonymous")
                          ELSE PendingHello("anonymous", out)]
       ELSE ScanAuthmethods(w1, authmethods, 1, r, out)

\* ---------------------------------------------------- onAuthenticate --
\* (variant: the signature is verified whether or not a PendingAuth is stored)
onAuthenticate_unguarded(w, out) ==
    IF out = "Deferred" THEN Deferred("wampcra") ELSE PendingAuthenticate("wampcra", out)

onAuthenticate(w, out) ==
    IF w.pending_auth # "None"
    THEN IF w.pending_auth \in {"ticket", "wampcra", "cryptosign",
                                "cryptosign-proxy", "scram"}
         THEN IF out = "Deferred" THEN Deferred(w.pending_auth)
              ELSE PendingAuthenticate(w.pending_auth, out)
         ELSE DenyWith(NOT_AUTHORIZED, INTERNAL_ERROR)
    ELSE DenyWith(NOT_AUTHORIZED, NO_PENDING_AUTH)


\* ------------------------------------- callbacks of the auth futures --
\* (variant: the Challenge branch falls through to the Deny branch)
onHello_success_fallthrough(w, res) ==
    IF w.transport = "None" THEN w
    ELSE IF res.kind = "Accept" THEN welcome(w, res)
    ELSE IF res.kind = "Challenge"
    THEN TransportSend(TransportSend(w, "CHALLENGE", 0, res.authmethod),
                       "ABORT", 0, NOT_AUTHORIZED)
    ELSE IF res.kind = "Deny" THEN TransportSend(w, "ABORT", 0, res.reason)
    ELSE w

\* (variant: without the test of the transport)
onHello_success_unchecked(w, res) ==
    IF res.kind = "Accept" THEN welcome(w, res)
    ELSE IF res.kind = "Challenge" THEN TransportSend(w, "CHALLENGE", 0, res.authmethod)
    ELSE IF res.kind = "Deny" THEN TransportSend(w, "ABORT", 0, res.reason)
    ELSE w

onHello_success(w, res) ==
    IF w.transport = "None" THEN w
    ELSE IF res.kind = "Accept" THEN welcome(w, res)
    ELSE IF res.kind = "Challenge" THEN TransportSend(w, "CHALLENGE", 0, res.authmethod)
    ELSE IF res.kind = "Deny" THEN TransportSend(w, "ABORT", 0, res.reason)
    ELSE w

onAuthenticate_success(w, res) ==
    IF w.transport = "None" THEN w
    ELSE IF res.kind = "Accept" THEN welcome(w, res)
    ELSE IF res.kind = "Deny" THEN TransportSend(w, "ABORT", 0, res.reason)
    ELSE w

\* _swallow_error_and_abort(fail), the errback of both futures
swallow_error_and_abort(w) ==
    LET w1 == TransportSend(w, "ABORT", 0, AUTHORIZATION_FAILED)
        w2 == IF w1.router # "None" THEN Caught(RouterDetach(w1)) ELSE w1
    IN IF w1.exc # "None" THEN w1
       ELSE [w2 EXCEPT !.session_id = 0, !.previous_session_id = 0,
                       !.pending_session_id = 0]

\* ----------------------------------------------------------- onMessage --
\* util.id(): an id no object holds; ids being random, the least such stands for
\* all of them (every id in use was drawn for a message, so one is left)
IdsInUse(w) ==
    {w.session_id, w.pending_session_id, w.previous_session_id,
     w.session_details.session} \cup w.attached
util_id(w) ==
    CHOOSE i \in 1..(MaxMsgs + MaxSends + 1) :
        i \notin IdsInUse(w) /\ \A j \in 1..(i - 1) : j \in IdsInUse(w)

\* (a PendingAuth is made for a method of the transport's auth configuration)
Futures == [kind : {"hello", "auth"}, method : AUTHMETHODS \cap AuthTransport.auth]
InFlight(fs) == {f \in Futures : fs[f] > 0}
Sum(fs) == LET RECURSIVE S(_)
               S(F) == IF F = {} THEN 0
                       ELSE LET f == CHOOSE f \in F : TRUE IN fs[f] + S(F \ {f})
           IN S(Futures)
AddFuture(w, kind) ==
    LET f == [kind |-> kind, method |-> w.pending_auth]
    IN [w EXCEPT !.futures[f] = @ + 1, !.res = "Deferred"]

\* the future fires with res (observation)
Got(w, res) == [w EXCEPT !.res = res.kind, !.got = res]

\* msg: [kind, realm, authmethods, authextra, reason, out]; out is the answer of the
\* PendingAuth the message reaches, "Deferred" when that answer is a Deferred
\* the branch of a session that is not joined (self._session_id is None)
onMessage_handshake(w, msg) ==
    LET w0 == IF w.pending_session_id = 0
              THEN [w EXCEPT !.pending_session_id = util_id(w)]
              ELSE w
    IN IF msg.kind = "HELLO"
       THEN LET h == onHello(w0, msg.realm, msg.authmethods, msg.authextra, msg.out)
            IN IF h.res.kind = "Deferred" THEN AddFuture(h.w, "hello")
               ELSE onHello_success(Got(h.w, h.res), h.res)
       ELSE IF msg.kind = "AUTHENTICATE"
       THEN LET res == onAuthenticate(w0, msg.out)
            IN IF res.kind = "Deferred" THEN AddFuture(w0, "auth")
               ELSE onAuthenticate_success(Got(w0, res), res)
       ELSE IF msg.kind = "ABORT"
       THEN LET w1 == onLeave(w0, msg.reason)
            IN [w1 EXCEPT !.session_id = 0, !.previous_session_id = 0,
                          !.pending_session_id = 0]
       ELSE w0

\* (variant: the session is detached before the GOODBYE reply is sent)
onMessage_joined_detach_first(w, msg) ==
    IF msg.kind = "HELLO" THEN w
    ELSE IF msg.kind = "GOODBYE"
    THEN LET w1 == Caught(RouterDetach(w))
             w2 == IF ~w1.goodbye_sent
                   THEN [TransportSend(w1, "GOODBYE", 0, "None") EXCEPT !.goodbye_sent = TRUE]
                   ELSE w1
             w3 == [w2 EXCEPT !.previous_session_id = w2.session_id,
                              !.session_id = 0, !.pending_session_id = 0]
             w4 == IF w3.service_session
                   THEN Publish(w3, "wamp.session.on_leave", w3.previous_session_id)
                   ELSE w3
         IN onLeave(w4, msg.reason)
    ELSE RouterProcess(w, msg.kind)

\* (variant: a HELLO of a joined session is routed like any other message)
onMessage_joined_routes_hello(w, msg) ==
    IF msg.kind = "GOODBYE" THEN onMessage_joined_detach_first(w, msg)
    ELSE RouterProcess(w, msg.kind)

\* the branch of a joined session
\* (variant: the GOODBYE of the peer is answered whatever goodbye_sent holds)
onMessage_joined_always_replies(w, msg) ==
    IF msg.kind = "HELLO" THEN w
    ELSE IF msg.kind = "GOODBYE"
    THEN LET w1 == [TransportSend(w, "GOODBYE", 0, "None") EXCEPT !.goodbye_sent = TRUE]
             w2 == Caught(RouterDetach(w1))
             w3 == [w2 EXCEPT !.previous_session_id = w2.session_id,
                              !.session_id = 0, !.pending_session_id = 0]
             w4 == IF w3.service_session
                   THEN Publish(w3, "wamp.session.on_leave", w3.previous_session_id)
                   ELSE w3
         IN onLeave(w4, msg.reason)
    ELSE RouterProcess(w, msg.kind)

onMessage_joined(w, msg) ==
    IF msg.kind = "HELLO" THEN w
    ELSE IF msg.kind = "GOODBYE"
    THEN LET w1 == IF ~w.goodbye_sent
                   THEN [TransportSend(w, "GOODBYE", 0, "None") EXCEPT !.goodbye_sent = TRUE]
                   ELSE w
             w2 == Caught(RouterDetach(w1))
             w3 == [w2 EXCEPT !.previous_session_id = w2.session_id,
                              !.session_id = 0, !.pending_session_id = 0]
             w4 == IF w3.service_session
                   THEN Publish(w3, "wamp.session.on_leave", w3.previous_session_id)
                   ELSE w3
         IN onLeave(w4, msg.reason)
    ELSE RouterProcess(w, msg.kind)

\* (variant: a GOODBYE is answered before the session's state is looked at)
onMessage_goodbye_first(w, msg) ==
    IF msg.kind = "GOODBYE" THEN onMessage_joined(w, msg)
    ELSE IF w.session_id = 0 THEN onMessage_handshake(w, msg)
    ELSE onMessage_joined(w, msg)

onMessage(w, msg) ==
    IF w.session_id = 0 THEN onMessage_handshake(w, msg) ELSE onMessage_joined(w, msg)

\* ------------------------------------------------------------- onClose --
\* (variant: an exception of onLeave leaves onClose)
onClose_uncaught(w, leave_raises) ==
    LET w1 == IF w.service_session
              THEN PublishStats(w, w.session_id, FALSE, TRUE)
              ELSE w
        w2 == [w1 EXCEPT !.transport = "None"]
        wl == IF leave_raises THEN Raise(Emit(w2, "onLeave", "None", 0), "Exception")
              ELSE onLeave(w2, "None")
        w3 == IF w2.session_id # 0
              THEN IF wl.exc # "None" THEN wl
                   ELSE [Caught(RouterDetach(wl)) EXCEPT !.session_id = 0]
              ELSE w2
    IN IF w3.exc # "None" THEN w3
       ELSE [w3 EXCEPT !.previous_session_id = 0, !.pending_session_id = 0,
                       !.authid = "None", !.authrole = "None", !.authmethod = "None",
                       !.authprovider = "None"]

\* onClose(wasClean); leave_raises: the onLeave it calls fails (in the router's
\* _session_left, its first call)
onClose(w, leave_raises) ==
    LET w1 == IF w.service_session
              THEN PublishStats(w, w.session_id, FALSE, TRUE)
              ELSE w
        w2 == [w1 EXCEPT !.transport = "None"]
        wl == IF leave_raises THEN Raise(Emit(w2, "onLeave", "None", 0), "Exception")
              ELSE onLeave(w2, "None")
        w3 == IF w2.session_id # 0
              THEN [Caught(RouterDetach(Caught(wl))) EXCEPT !.session_id = 0]
              ELSE w2
    IN [w3 EXCEPT !.previous_session_id = 0, !.pending_session_id = 0,
                  !.authid = "None", !.authrole = "None", !.authmethod = "None",
                  !.authprovider = "None"]

\* --------------------------------------------------------------- leave --
\* (variant: without the test of goodbye_sent)
leave_unguarded(w) ==
    [TransportSend(w, "GOODBYE", 0, "None") EXCEPT !.goodbye_sent = TRUE]

leave(w) ==
    IF ~w.goodbye_sent
    THEN [TransportSend(w, "GOODBYE", 0, "None") EXCEPT !.goodbye_sent = TRUE]
    ELSE Raise(w, "SessionNotReady")

\* ------------------------------------------------------------- actions --
Msg(kind, r, ams, aextra, reason, out) ==
    [kind |-> kind, realm |-> r, authmethods |-> ams, authextra |-> aextra,
     reason |-> reason, out |-> out]

\* the handler `op` ran on input `res` from the state the unprimed variables hold
Ran(op, res) ==
    last' = [op |-> op, res |-> res, bare |-> FALSE]
\* bare: the message carried no authmethods
RanMessage(msg, res) ==
    last' = [op |-> msg.kind, res |-> res,
             bare |-> (msg.kind = "HELLO" /\ msg.authmethods = <<>>)]

\* the futures in flight stay within the bound
Within(w) == Sum(w.futures) <= MaxFutures

Init ==
    /\ phase = "new"
    /\ transport = "None"
    /\ tp \in Transports
    /\ session_id = 0
    /\ pending_session_id = 0
    /\ previous_session_id = 0
    /\ realm = "None"
    /\ router = "None"
    /\ goodbye_sent = FALSE
    /\ pending_auth = "None"
    /\ service_session = FALSE
    /\ session_details = NoDetails
    /\ authid = "None"
    /\ authrole = "None"
    /\ authmethod = "None"
    /\ authprovider = "None"
    /\ authextra = NoExtra
    /\ attached = {}
    /\ realm_session \in BOOLEAN
    /\ realm_stats = NoStats
    /\ testaments = NoTestaments
    /\ stats_enabled = FALSE
    /\ stats_trigger_on_leave = FALSE
    /\ stats_has_triggered_first = FALSE
    /\ stats_session = 0
    /\ app_sessions = [s \in AppSessions |-> NoWrapper]
    /\ wrappers = 0
    /\ cookiestore = InitialCookie(tp)
    /\ received = 0
    /\ futures = [f \in Futures |-> 0]
    /\ calls = 0
    /\ jchain = 0
    /\ gchain = 0
    /\ got = NoResult
    /\ evts = <<>>
    /\ last = [op |-> "init", res |-> "None", bare |-> FALSE]

\* onOpen(transport)
OnOpen ==
    /\ phase = "new"
    /\ UNCHANGED received
    /\ phase' = "open"
    /\ Commit([W EXCEPT !.transport = "open", !.pending_session_id = 0,
                        !.previous_session_id = 0, !.realm = "None", !.session_id = 0,
                        !.session_details = NoDetails, !.pending_auth = "None",
                        !.authid = "None", !.authrole = "None", !.authmethod = "None",
                        !.authprovider = "None", !.authextra = NoExtra,
                        !.service_session = FALSE])
    /\ Ran("onOpen", "None")

\* the transport delivers one message to onMessage
Receive(msg) ==
    /\ phase = "open"
    /\ received < MaxMsgs
    /\ received' = received + 1
    /\ LET w == onMessage(W, msg)
       IN /\ Within(w)
          /\ Commit(w)
          /\ RanMessage(msg, IF msg.kind \in {"ABORT", "GOODBYE"} THEN msg.reason ELSE w.res)
    /\ UNCHANGED phase

\* (a joined session ignores the HELLO or routes the AUTHENTICATE whatever it holds)
RecvHello ==
    \E r \in HelloRealms, ams \in HelloAuthmethods, aextra \in HelloAuthextras,
       out \in {"Accept", "Challenge", "Deny", "Deferred"} :
        /\ session_id # 0 => (r = "realm1" /\ ams = <<>> /\ aextra = NoExtra /\ out = "Accept")
        /\ Receive(Msg("HELLO", r, ams, aextra, "None", out))

RecvAuthenticate ==
    \E out \in {"Accept", "Deny", "Deferred"} :
        /\ session_id # 0 => out = "Accept"
        /\ Receive(Msg("AUTHENTICATE", "None", <<>>, NoExtra, "None", out))

RecvAbort == \E reason \in CloseReasons : Receive(Msg("ABORT", "None", <<>>, NoExtra, reason, "None"))

RecvGoodbye == \E reason \in CloseReasons : Receive(Msg("GOODBYE", "None", <<>>, NoExtra, reason, "None"))

RecvOther == Receive(Msg("PUBLISH", "None", <<>>, NoExtra, "None", "None"))

\* the router asks the attached session to leave (session.leave())
Leave ==
    /\ phase = "open"
    /\ UNCHANGED received
    /\ attached # {}
    /\ Commit(leave(W))
    /\ Ran("leave", "None")
    /\ UNCHANGED phase

\* the transport is lost or closed: onClose(wasClean)
OnClose ==
    \E leave_raises \in BOOLEAN :
        /\ phase = "open"
        /\ leave_raises => session_id # 0
        /\ UNCHANGED received
        /\ phase' = "closed"
        /\ Commit(onClose(W, leave_raises))
        /\ Ran("onClose", "None")

\* the future of an onHello resolves: out is what PendingAuth.hello produced
ResolveHello ==
    \E f \in InFlight(futures), out \in {"Accept", "Challenge", "Deny", "Error"} :
        /\ f.kind = "hello"
        /\ UNCHANGED received
        /\ LET w0 == [W EXCEPT !.futures[f] = @ - 1]
               res == PendingHello(f.method, out)
               w == IF out = "Error" THEN swallow_error_and_abort(w0)
                    ELSE onHello_success(Got(w0, res), res)
           IN Commit(w)
        /\ Ran(IF out = "Error" THEN "onHello_error" ELSE "onHello_success", out)
        /\ UNCHANGED phase

\* the future of an onAuthenticate resolves
ResolveAuthenticate ==
    \E f \in InFlight(futures), out \in {"Accept", "Deny", "Error"} :
        /\ f.kind = "auth"
        /\ UNCHANGED received
        /\ LET w0 == [W EXCEPT !.futures[f] = @ - 1]
               res == PendingAuthenticate(f.method, out)
               w == IF out = "Error" THEN swallow_error_and_abort(w0)
                    ELSE onAuthenticate_success(Got(w0, res), res)
           IN Commit(w)
        /\ Ran(IF out = "Error" THEN "onAuthenticate_error" ELSE "onAuthenticate_success",
               out)
        /\ UNCHANGED phase

Next ==
    \/ OnOpen
    \/ RecvHello
    \/ RecvAuthenticate
    \/ RecvAbort
    \/ RecvGoodbye
    \/ RecvOther
    \/ Leave
    \/ OnClose
    \/ ResolveHello
    \/ ResolveAuthenticate

Spec == Init /\ [][Next]_vars

\* ---------------------------------------------- testaments and statistics --
\* a RouterSession on a realm whose configuration may hold a 'stats' block
InitMeta ==
    /\ phase = "new"
    /\ transport = "None"
    /\ tp = PlainTransport
    /\ session_id = 0
    /\ pending_session_id = 0
    /\ previous_session_id = 0
    /\ realm = "None"
    /\ router = "None"
    /\ goodbye_sent = FALSE
    /\ pending_auth = "None"
    /\ service_session = FALSE
    /\ session_details = NoDetails
    /\ authid = "None"
    /\ authrole = "None"
    /\ authmethod = "None"
    /\ authprovider = "None"
    /\ authextra = NoExtra
    /\ attached = {}
    /\ realm_session \in BOOLEAN
    /\ realm_stats \in StatsConfigs
    /\ testaments = NoTestaments
    /\ stats_enabled = FALSE
    /\ stats_trigger_on_leave = FALSE
    /\ stats_has_triggered_first = FALSE
    /\ stats_session = 0
    /\ app_sessions = [s \in AppSessions |-> NoWrapper]
    /\ wrappers = 0
    /\ cookiestore = InitialCookie(tp)
    /\ received = 0
    /\ futures = [f \in Futures |-> 0]
    /\ calls = 0
    /\ jchain = 0
    /\ gchain = 0
    /\ got = NoResult
    /\ evts = <<>>
    /\ last = [op |-> "init", res |-> "None", bare |-> FALSE]

\* the joined session adds a testament (wamp.session.add_testament appends the
\* message to session._testaments[scope])
AddTestament ==
    \E scope \in {"detached", "destroyed"} :
        /\ phase = "open"
        /\ session_id # 0
        /\ testaments[scope] < MaxTestaments
        /\ Commit([W EXCEPT !.testaments[scope] = @ + 1])
        /\ Ran("add_testament", scope)
        /\ UNCHANGED <<phase, received>>

\* on_stats(stats), the callback onJoin gave to the serializer
on_stats(w) ==
    [PublishStats(w, w.stats_session, ~w.stats_has_triggered_first, FALSE)
         EXCEPT !.stats_has_triggered_first = TRUE]

\* the serializer's interim trigger fires (rated messages or duration reached)
OnStats ==
    /\ phase = "open"
    /\ stats_session # 0
    /\ Commit(on_stats(W))
    /\ Ran("on_stats", "None")
    /\ UNCHANGED <<phase, received>>

\* a HELLO for the realm, without authmethods
RecvHelloPlain ==
    \E out \in {"Accept", "Deny"} :
        Receive(Msg("HELLO", "realm1", <<>>, NoExtra, "None", out))

NextMeta ==
    \/ OnOpen
    \/ RecvHelloPlain
    \/ RecvAbort
    \/ RecvGoodbye
    \/ RecvOther
    \/ Leave
    \/ OnClose
    \/ AddTestament
    \/ OnStats

SpecMeta == InitMeta /\ [][NextMeta]_vars

\* ============================================================================
\* RouterApplicationSession: an application session embedded in the router.
\* The wrapper is the transport of the wrapped session; session_id, authid,
\* authrole, session_details are the fields of the wrapped session, tp.authid
\* and tp.authrole the trusted identity chosen at wrap time.
\* ============================================================================
Wrapper(aid, arole) ==
    [authid |-> aid, authrole |-> arole, authmethod |-> "None", authprovider |-> "None",
     authrealm |-> "None", authextra |-> NoExtra, cbtid |-> "None", hdr_cbtid |-> "None",
     auth |-> {}]

\* the trusted identities a session is wrapped with
Wrappers ==
    {Wrapper("service", "admin"), Wrapper("None", "None"),
     [Wrapper("service", "admin") EXCEPT !.authextra = ForgedExtra]}

\* what the stages of a chain do: complete, fail, or return a Deferred that is
\* still pending
Outcomes == [1..3 -> {"ok", "raise", "pending"}]
\* (what follows a pending stage is decided when its Deferred fires)
StageOutcomes ==
    {o \in Outcomes : \A j, k \in 1..3 : (j < k /\ o[j] = "pending") => o[k] = "ok"}
JoinStages == <<"join", "onJoin", "ready">>
GoodbyeStages == <<"onLeave", "leave", "disconnect">>

\* messages the wrapped session or the router hands to send()
\* (a message is named by its class; an Error by its class and request type)
MessageClasses ==
    {"HELLO", "WELCOME", "ABORT", "CHALLENGE", "AUTHENTICATE", "GOODBYE",
     "PUBLISH", "PUBLISHED", "SUBSCRIBE", "SUBSCRIBED", "UNSUBSCRIBE", "UNSUBSCRIBED",
     "EVENT", "CALL", "CANCEL", "RESULT", "REGISTER", "REGISTERED", "UNREGISTER",
     "UNREGISTERED", "INVOCATION", "INTERRUPT", "YIELD"}
Error ==
    [INVOCATION |-> "ERROR_INVOCATION", CALL |-> "ERROR_CALL", CANCEL |-> "ERROR_CANCEL",
     REGISTER |-> "ERROR_REGISTER", UNREGISTER |-> "ERROR_UNREGISTER",
     PUBLISH |-> "ERROR_PUBLISH", SUBSCRIBE |-> "ERROR_SUBSCRIBE",
     UNSUBSCRIBE |-> "ERROR_UNSUBSCRIBE", EVENT |-> "ERROR_EVENT",
     RESULT |-> "ERROR_RESULT", GOODBYE |-> "ERROR_GOODBYE"]
Errors == {Error[rt] : rt \in DOMAIN Error}
AllMessages == MessageClasses \cup Errors

AppToRouter ==
    {"PUBLISH", "SUBSCRIBE", "UNSUBSCRIBE", "CALL", "YIELD", "REGISTER", "UNREGISTER",
     "CANCEL"} \cup {Error[rt] : rt \in {"INVOCATION"}}
RouterToApp ==
    {"EVENT", "INVOCATION", "RESULT", "PUBLISHED", "SUBSCRIBED", "UNSUBSCRIBED",
     "REGISTERED", "UNREGISTERED"}
        \cup {Error[rt] : rt \in {"CALL", "CANCEL", "REGISTER", "UNREGISTER", "PUBLISH",
                                   "SUBSCRIBE", "UNSUBSCRIBE"}}
EmbeddedMessages == AllMessages

\* RouterApplicationSession.close()
close(w) ==
    IF w.router # "None"
    THEN IF w.session_id \in w.attached
         THEN Emit([w EXCEPT !.calls = @ + 1], "callLater", "detach", w.session_id)
         ELSE Emit(w, "warn", "not attached", w.session_id)
    ELSE Emit(w, "warn", "router none", 0)

\* (variant: without the try/except)
detach_uncaught(w) == RouterDetach(w)

\* detach(sess), the function close() hands to reactor.callLater
detach(w) == Caught(RouterDetach(w))

\* the chain of the Hello branch from stage k on: 'join' observers, onJoin,
\* 'ready' observers, each with its errback; `started`: stage k was started and
\* its Deferred now fires with outs[k]
\* (variant: a failed stage ends the chain)
RECURSIVE fire_join_unisolated(_, _, _, _)
fire_join_unisolated(w, k, outs, started) ==
    IF k > Len(JoinStages) THEN [w EXCEPT !.jchain = 0]
    ELSE IF ~started
    THEN LET w1 == Emit(w, "stage", JoinStages[k], k)
         IN IF outs[k] = "pending" THEN [w1 EXCEPT !.jchain = k]
            ELSE fire_join_unisolated(w1, k, outs, TRUE)
    ELSE IF outs[k] = "raise" THEN [Emit(w, "logged", JoinStages[k], k) EXCEPT !.jchain = 0]
    ELSE fire_join_unisolated(w, k + 1, outs, FALSE)

RECURSIVE fire_join(_, _, _, _)
fire_join(w, k, outs, started) ==
    IF k > Len(JoinStages) THEN [w EXCEPT !.jchain = 0]
    ELSE IF ~started
    THEN LET w1 == Emit(w, "stage", JoinStages[k], k)
         IN IF outs[k] = "pending" THEN [w1 EXCEPT !.jchain = k]
            ELSE fire_join(w1, k, outs, TRUE)
    ELSE LET w1 == IF outs[k] = "raise" THEN Emit(w, "logged", JoinStages[k], k) ELSE w
         IN fire_join(w1, k + 1, outs, FALSE)

\* do_goodbye() from stage k on: onLeave, 'leave' observers, 'disconnect'
\* observers, then the publication; disc: the session's onLeave disconnects,
\* which closes its transport (this wrapper)
\* (variant: a failed stage ends do_goodbye())
RECURSIVE do_goodbye_unisolated(_, _, _, _, _)
do_goodbye_unisolated(w, k, outs, disc, started) ==
    IF k > Len(GoodbyeStages)
    THEN LET w1 == [w EXCEPT !.gchain = 0]
         IN IF realm_session
            THEN Publish(w1, "wamp.session.on_leave", w1.session_id)
            ELSE w1
    ELSE IF ~started
    THEN LET w1 == Emit(w, "stage", GoodbyeStages[k], k)
             w2 == IF GoodbyeStages[k] = "onLeave" /\ disc THEN close(w1) ELSE w1
         IN IF outs[k] = "pending" THEN [w2 EXCEPT !.gchain = k]
            ELSE do_goodbye_unisolated(w2, k, outs, disc, TRUE)
    ELSE IF outs[k] = "raise"
    THEN [Emit(w, "logged", GoodbyeStages[k], k) EXCEPT !.gchain = 0]
    ELSE do_goodbye_unisolated(w, k + 1, outs, disc, FALSE)

RECURSIVE do_goodbye(_, _, _, _, _)
do_goodbye(w, k, outs, disc, started) ==
    IF k > Len(GoodbyeStages)
    THEN LET w1 == [w EXCEPT !.gchain = 0]
         IN IF realm_session
            THEN Publish(w1, "wamp.session.on_leave", w1.session_id)
            ELSE w1
    ELSE IF ~started
    THEN LET w1 == Emit(w, "stage", GoodbyeStages[k], k)
             w2 == IF GoodbyeStages[k] = "onLeave" /\ disc THEN close(w1) ELSE w1
         IN IF outs[k] = "pending" THEN [w2 EXCEPT !.gchain = k]
            ELSE do_goodbye(w2, k, outs, disc, TRUE)
    ELSE LET w1 == IF outs[k] = "raise" THEN Emit(w, "logged", GoodbyeStages[k], k) ELSE w
         IN do_goodbye(w1, k + 1, outs, disc, FALSE)

\* (variant: an Error goes to the router whatever its request type)
send_errors_to_router(w, msg, outs, disc) ==
    IF msg = "HELLO"
    THEN LET w1 == [w EXCEPT !.session_id = util_id(w),
                             !.authid = w.tp.authid, !.authrole = w.tp.authrole,
                             !.authmethod = "None", !.authprovider = "None",
                             !.authextra = w.tp.authextra]
             w2 == [w1 EXCEPT !.session_details =
                        [realm |-> w1.realm, session |-> w1.session_id,
                         authid |-> w1.authid, authrole |-> w1.authrole,
                         authmethod |-> w1.authmethod, authprovider |-> w1.authprovider,
                         authextra |-> w1.authextra]]
             w3 == RouterAttach(w2)
         IN IF w3.exc # "None" THEN w3 ELSE fire_join(w3, 1, outs, FALSE)
    ELSE IF msg \in AppToRouter \cup Errors THEN RouterProcess(w, msg)
    ELSE IF msg \in RouterToApp THEN Emit(w, "onMessage", msg, w.session_id)
    ELSE IF msg = "GOODBYE" THEN do_goodbye(w, 1, outs, disc, FALSE)
    ELSE Raise(w, "Exception")

\* RouterApplicationSession.send(msg)
send(w, msg, outs, disc) ==
    IF msg = "HELLO"
    THEN LET w1 == [w EXCEPT !.session_id = util_id(w),
                             !.authid = w.tp.authid, !.authrole = w.tp.authrole,
                             !.authmethod = "None", !.authprovider = "None",
                             !.authextra = w.tp.authextra]
             w2 == [w1 EXCEPT !.session_details =
                        [realm |-> w1.realm, session |-> w1.session_id,
                         authid |-> w1.authid, authrole |-> w1.authrole,
                         authmethod |-> w1.authmethod, authprovider |-> w1.authprovider,
                         authextra |-> w1.authextra]]
             w3 == RouterAttach(w2)
         IN IF w3.exc # "None" THEN w3 ELSE fire_join(w3, 1, outs, FALSE)
    ELSE IF msg \in AppToRouter THEN RouterProcess(w, msg)
    ELSE IF msg \in RouterToApp THEN Emit(w, "onMessage", msg, w.session_id)
    ELSE IF msg = "GOODBYE" THEN do_goodbye(w, 1, outs, disc, FALSE)
    ELSE Raise(w, "Exception")

InitEmbedded ==
    /\ phase = "new"
    /\ transport = "None"
    /\ tp \in Wrappers
    /\ session_id = 0
    /\ pending_session_id = 0
    /\ previous_session_id = 0
    /\ realm = "None"
    /\ router = "None"
    /\ goodbye_sent = FALSE
    /\ pending_auth = "None"
    /\ service_session = FALSE
    /\ session_details = NoDetails
    /\ authid = "None"
    /\ authrole = "None"
    /\ authmethod = "None"
    /\ authprovider = "None"
    /\ authextra = NoExtra
    /\ attached = {}
    /\ realm_session \in BOOLEAN
    /\ realm_stats = NoStats
    /\ testaments = NoTestaments
    /\ stats_enabled = FALSE
    /\ stats_trigger_on_leave = FALSE
    /\ stats_has_triggered_first = FALSE
    /\ stats_session = 0
    /\ app_sessions = [s \in AppSessions |-> NoWrapper]
    /\ wrappers = 0
    /\ cookiestore = NoCookie
    /\ received = 0
    /\ futures = [f \in Futures |-> 0]
    /\ calls = 0
    /\ jchain = 0
    /\ gchain = 0
    /\ got = NoResult
    /\ evts = <<>>
    /\ last = [op |-> "init", res |-> "None", bare |-> FALSE]

\* RouterApplicationSession(session, router, authid, authrole): the wrapper
\* becomes the session's transport and fires 'connect' and onConnect
Wrap ==
    /\ phase = "new"
    /\ phase' = "open"
    /\ UNCHANGED received
    /\ Commit(Emit(Emit([W EXCEPT !.router = "realm1", !.realm = "realm1",
                                  !.transport = "open"],
                        "stage", "connect", 0), "stage", "onConnect", 0))
    /\ Ran("wrap", "None")

\* send(msg) is called with a message of kind msg
Send(msg, outs, disc) ==
    /\ phase = "open"
    /\ received < MaxSends
    /\ received' = received + 1
    /\ LET w == send(W, msg, outs, disc)
       IN /\ w.calls <= MaxCalls
          /\ Commit(w)
    /\ Ran(msg, "None")
    /\ UNCHANGED phase

\* (one join chain is followed at a time)
SendHello ==
    \E outs \in StageOutcomes :
        /\ jchain = 0
        /\ Send("HELLO", outs, FALSE)

\* (one do_goodbye() is followed at a time)
SendGoodbye ==
    \E outs \in StageOutcomes, disc \in BOOLEAN :
        /\ gchain = 0
        /\ Send("GOODBYE", outs, disc)

SendOther ==
    \E msg \in EmbeddedMessages \ {"HELLO", "GOODBYE"} :
        Send(msg, [k \in 1..3 |-> "ok"], FALSE)

\* the Deferred the join chain waits on fires
ResumeJoin ==
    \E res \in {"ok", "raise"}, outs \in StageOutcomes :
        /\ jchain # 0
        /\ outs[jchain] = res
        /\ \A k \in 1..(jchain - 1) : outs[k] = "ok"
        /\ Commit(fire_join([W EXCEPT !.jchain = 0], jchain, outs, TRUE))
        /\ Ran("resume_join", res)
        /\ UNCHANGED <<phase, received>>

\* the Deferred a do_goodbye() waits on fires
ResumeGoodbye ==
    \E res \in {"ok", "raise"}, outs \in StageOutcomes :
        /\ gchain # 0
        /\ outs[gchain] = res
        /\ \A k \in 1..(gchain - 1) : outs[k] = "ok"
        /\ Commit(do_goodbye([W EXCEPT !.gchain = 0], gchain, outs, FALSE, TRUE))
        /\ Ran("resume_goodbye", res)
        /\ UNCHANGED <<phase, received>>

\* the wrapped session disconnects: close() of its transport
Close ==
    /\ phase = "open"
    /\ calls < MaxCalls
    /\ Commit(close(W))
    /\ Ran("close", "None")
    /\ UNCHANGED <<phase, received>>

\* the reactor runs a detach that close() scheduled
DetachLater ==
    /\ calls > 0
    /\ LET w == detach([W EXCEPT !.calls = @ - 1])
       IN /\ Commit(w)
          /\ Ran("detach", w.exc)
    /\ UNCHANGED <<phase, received>>

NextEmbedded ==
    \/ Wrap
    \/ SendHello
    \/ SendGoodbye
    \/ SendOther
    \/ ResumeJoin
    \/ ResumeGoodbye
    \/ Close
    \/ DetachLater

SpecEmbedded == InitEmbedded /\ [][NextEmbedded]_vars

\* ============================================================================
\* RouterSessionFactory: the registry of embedded application sessions.
\* ============================================================================
\* RouterApplicationSession(session, router, authid, ...): wrapper number k
RouterApplicationSession(w, session, aid, k) ==
    Emit(Emit(Emit([w EXCEPT !.wrappers = k], "construct", session, k),
              "stage", "connect", k), "stage", "onConnect", k)

\* (variant: a wrapper is constructed for every add)
add_always_wraps(w, session, aid) ==
    LET k == w.wrappers + 1
        w1 == RouterApplicationSession(w, session, aid, k)
        w2 == [w1 EXCEPT !.app_sessions[session] = [id |-> k, authid |-> aid]]
    IN Emit(w2, "return", session, w2.app_sessions[session].id)

\* RouterSessionFactory.add(session, router, authid, authrole, authextra)
add(w, session, aid) ==
    LET k == w.wrappers + 1
        w1 == IF w.app_sessions[session] = NoWrapper
              THEN [RouterApplicationSession(w, session, aid, k)
                        EXCEPT !.app_sessions[session] = [id |-> k, authid |-> aid]]
              ELSE Emit(w, "warn", "already running", w.app_sessions[session].id)
    IN Emit(w1, "return", session, w1.app_sessions[session].id)

\* RouterSessionFactory.remove(session)
remove(w, session) ==
    IF w.app_sessions[session] # NoWrapper
    THEN [Emit(w, "disconnect", session, w.app_sessions[session].id)
              EXCEPT !.app_sessions[session] = NoWrapper]
    ELSE Emit(w, "warn", "not running", 0)

InitFactory == InitEmbedded

Add ==
    \E session \in AppSessions, aid \in {"None", "service"} :
        /\ app_sessions[session] = NoWrapper => wrappers < MaxWrappers
        /\ Commit(add(W, session, aid))
        /\ Ran("add", session)
        /\ UNCHANGED <<phase, received>>

Remove ==
    \E session \in AppSessions :
        /\ Commit(remove(W, session))
        /\ Ran("remove", session)
        /\ UNCHANGED <<phase, received>>

NextFactory ==
    \/ Add
    \/ Remove

SpecFactory == InitFactory /\ [][NextFactory]_vars

\* ---------------------------------------------------------- observation --
\* positions in the last handler's events
Events(t) == {i \in DOMAIN evts : evts[i].t = t}
Sends == Events("send")
SentFrames(F) == {i \in Sends : evts[i].a \in F}
Raised == Events("raise") # {}

AuthCallbacks == {"onHello_success", "onAuthenticate_success"}
AuthErrbacks == {"onHello_error", "onAuthenticate_error"}
HandshakeFrames == {"WELCOME", "CHALLENGE", "ABORT"}
FrameOf(res) ==
    IF res = "Accept" THEN "WELCOME" ELSE IF res = "Challenge" THEN "CHALLENGE" ELSE "ABORT"

\* the last handler delivered an authentication result (at once or from a future)
AuthResolved ==
    /\ last.op \in {"HELLO", "AUTHENTICATE"} \cup AuthCallbacks \cup AuthErrbacks
    /\ last.res \in {"Accept", "Challenge", "Deny", "Error"}

\* the step delivers a GOODBYE of the peer
GoodbyeStep == last'.op = "GOODBYE" /\ received' = received + 1

C2_IdIffAttached == (session_id = 0) <=> (attached = {})

\* ------------------------------------------------------------------ C3 --
\* C3: detach is never called on a session that is not attached, and no
\* attachment of the session is left once the transport is closed (every attach
\* is matched by one detach before the session is destroyed).
C3_AttachDetachPaired ==
    /\ \A i \in Events("detach") : evts[i].a = "ok"
    /\ phase = "closed" => attached = {}

OnLeavePubs == {i \in Events("publish") : evts[i].a = "wamp.session.on_leave"}

\* C5: at the moment wamp.session.on_leave is published for a session, that
\* session is already detached or has session_id None, so that the event cannot
\* be delivered to the session itself.
C5_OnLeaveNotToSelf == \A i \in OnLeavePubs : ~evts[i].att \/ evts[i].sid = 0

\* ------------------------------------------------------------------ C6 --
\* C6 (as stated): every publication of wamp.session.on_leave by a RouterSession
\* happens after its session_id has been cleared.
C6_PublishedAfterClearing == \A i \in OnLeavePubs : evts[i].sid = 0

\* C6 (amended): wamp.session.on_leave is published by the handler that ends a
\* joined lifecycle, with the id the session had while joined, and session_id is
\* None when that handler returns.  On a peer GOODBYE it is published after
\* session_id was cleared, the transport still open; on transport loss it is
\* published from onLeave while session_id still holds the id, the transport
\* reference already None.
C6_OnLeavePublication ==
    [][\A i \in OnLeavePubs' :
          /\ session_id # 0
          /\ evts'[i].n = session_id
          /\ session_id' = 0
          /\ \/ last'.op = "GOODBYE" /\ evts'[i].sid = 0 /\ evts'[i].tr = "open"
             \/ last'.op = "onClose" /\ evts'[i].sid = session_id /\ evts'[i].tr = "None"]_vars

\* the transport of a joined session was lost and on_leave was published
C6_Witness == last.op = "onClose" /\ OnLeavePubs # {}

\* ------------------------------------------------------------------ C7 --
\* C7: pending_auth is null once the session is joined, after a peer ABORT was
\* handled and after an AUTHENTICATE was answered.
C7_PendingAuthReleased ==
    /\ session_id # 0 => pending_auth = "None"
    /\ last.op = "ABORT" => pending_auth = "None"
    /\ (last.op = "AUTHENTICATE" /\ last.res \in {"Accept", "Deny"}) => pending_auth = "None"

\* ------------------------------------------------------------------ C8 --
\* C8: when the future of a HELLO or AUTHENTICATE resolves with Accept, Challenge
\* or Deny after the transport was lost, the callback does nothing: no frame is
\* sent, router.attach is not called, and session_id stays None.
C8_NoAnswerAfterTransportLoss ==
    (last.op \in AuthCallbacks /\ transport = "None")
        => (evts = <<>> /\ session_id = 0 /\ pending_session_id = 0)

\* a future resolved with Accept after onClose
C8_Witness ==
    /\ last.op \in AuthCallbacks
    /\ last.res = "Accept"
    /\ transport = "None"
    /\ phase = "closed"

\* ------------------------------------------------------------------ C9 --
\* C9: when the future fails after the transport was lost, the errback returns
\* silently: it attempts no send and raises no error.
C9_ErrbackSilentAfterTransportLoss ==
    (last.op \in AuthErrbacks /\ transport = "None") => evts = <<>>

\* ----------------------------------------------------------------- C10 --
\* C10: a GOODBYE of a joined peer is answered with one GOODBYE exactly when none
\* was sent before, and a GOODBYE that follows it at once is ignored: it causes
\* no frame, no detach, no on_leave publication and no onLeave call, and changes
\* nothing but the pending session id reserved for the next handshake.
C10_SecondGoodbyeIgnored ==
    [][/\ (session_id # 0 /\ GoodbyeStep)
            => /\ Cardinality(SentFrames({"GOODBYE"}))' = (IF goodbye_sent THEN 0 ELSE 1)
               /\ Sends' = SentFrames({"GOODBYE"})'
               /\ goodbye_sent'
       /\ (last.op = "GOODBYE" /\ evts # <<>> /\ GoodbyeStep)
            => /\ evts' = <<>>
               /\ pending_session_id' # 0
               /\ UNCHANGED <<session_id, previous_session_id, attached, goodbye_sent,
                              session_details, cookiestore, realm, router, pending_auth,
                              futures, transport>>]_vars

\* the peer's first three messages were HELLO (joined), GOODBYE, GOODBYE
C10_Witness ==
    /\ last.op = "GOODBYE"
    /\ evts = <<>>
    /\ received = 3
    /\ previous_session_id # 0
    /\ goodbye_sent

\* ----------------------------------------------------------------- C11 --
\* the last handler was the GOODBYE of a joined peer
JoinedGoodbye == last.op = "GOODBYE" /\ evts # <<>>

\* C11: on the GOODBYE of a joined session the GOODBYE reply, when one is sent,
\* goes out before router.detach is called; detach is called once, while the
\* session still has its id; the id is cleared before wamp.session.on_leave is
\* published (with the id the session had), and the publication precedes onLeave.
C11_GoodbyeOrder ==
    JoinedGoodbye =>
        /\ Cardinality(Events("detach")) = 1
        /\ Cardinality(Events("onLeave")) = 1
        /\ Cardinality(SentFrames({"GOODBYE"})) <= 1
        /\ Cardinality(OnLeavePubs) = (IF service_session THEN 1 ELSE 0)
        /\ \A d \in Events("detach") :
              /\ evts[d].sid # 0
              /\ \A s \in Sends : s < d /\ evts[s].a = "GOODBYE" /\ ~evts[s].gs
              /\ \A p \in OnLeavePubs :
                    d < p /\ evts[p].sid = 0 /\ evts[p].n = evts[d].sid
              /\ \A l \in Events("onLeave") :
                    d < l /\ evts[l].sid = 0 /\ \A p \in OnLeavePubs : p < l

\* a joined peer said GOODBYE first: a reply was sent and on_leave was published
C11_Witness ==
    /\ JoinedGoodbye
    /\ SentFrames({"GOODBYE"}) # {}
    /\ OnLeavePubs # {}

\* ----------------------------------------------------------------- C12 --
\* the step delivers Accept to a session that left with a GOODBYE exchange and
\* is in a handshake: at once for a HELLO or AUTHENTICATE, or from the future of
\* the handshake the pending session id belongs to
AcceptAfterGoodbye ==
    /\ session_id = 0
    /\ previous_session_id # 0
    /\ last'.res = "Accept"
    /\ \/ last'.op \in {"HELLO", "AUTHENTICATE"} /\ received' = received + 1
       \/ last'.op \in AuthCallbacks /\ pending_session_id # 0 /\ transport = "open"

\* C12: the GOODBYE of a joined peer leaves the transport open; an Accept that
\* follows on the same transport starts a new lifecycle: the session gets a fresh
\* id, is attached under it, one WELCOME with that id is sent and goodbye_sent is
\* false again; a GOODBYE of the peer received while it is false is answered
\* with a GOODBYE.
C12_NewLifecycleAfterGoodbye ==
    [][/\ (session_id # 0 /\ GoodbyeStep)
            => /\ transport' = "open"
               /\ session_id' = 0
               /\ previous_session_id' = session_id
               /\ ~goodbye_sent => Cardinality(SentFrames({"GOODBYE"}))' = 1
       /\ AcceptAfterGoodbye
            => /\ session_id' # 0
               /\ session_id' \notin ({previous_session_id} \cup attached)
               /\ session_id' \in attached'
               /\ ~goodbye_sent'
               /\ transport' = "open"
               /\ Cardinality(Sends') = 1
               /\ \A i \in Sends' : evts'[i].a = "WELCOME" /\ evts'[i].n = session_id'
               /\ session_details'.session = session_id']_vars

\* the session of a second lifecycle on the same transport answered the peer's
\* GOODBYE
C12_Witness ==
    /\ JoinedGoodbye
    /\ SentFrames({"GOODBYE"}) # {}
    /\ previous_session_id > 1
    /\ received = 4

\* ----------------------------------------------------------------- C13 --
\* C13: from the return of onClose on, whatever state the session was in and
\* even if the onLeave it called raised, session_id, pending_session_id,
\* previous_session_id, authid, authrole, authmethod, authprovider and the
\* transport reference are all None.
C13_ClearedAfterClose ==
    phase = "closed" =>
        /\ session_id = 0
        /\ pending_session_id = 0
        /\ previous_session_id = 0
        /\ authid = "None"
        /\ authrole = "None"
        /\ authmethod = "None"
        /\ authprovider = "None"
        /\ transport = "None"

\* the transport of a joined session was lost and its onLeave raised
C13_Witness ==
    /\ last.op = "onClose"
    /\ Raised
    /\ session_details.session # 0
    /\ session_id = 0

\* ----------------------------------------------------------------- C14 --
\* the realm and identity a record carries
Identity(r) ==
    [realm |-> r.realm, authid |-> r.authid, authrole |-> r.authrole,
     authmethod |-> r.authmethod, authprovider |-> r.authprovider]

\* C14: when the handler was given Accept(realm, authid, authrole, authmethod,
\* authprovider) and sent WELCOME, the session's fields, the SessionDetails kept
\* by onJoin and the WELCOME frame carry exactly those five values; the authextra
\* of all three has the keys x_cb_node, x_cb_worker, x_cb_peer, x_cb_pid with
\* the router's values, whatever the Accept carried for them, and keeps the
\* other entries of the Accept (but for 'transport' in the session's copies).
C14_AcceptEchoed ==
    \A i \in SentFrames({"WELCOME"}) :
        /\ got.kind = "Accept"
        /\ Identity(evts[i].x) = Identity(got)
        /\ Identity(session_details) = Identity(got)
        /\ Identity([realm |-> realm, authid |-> authid, authrole |-> authrole,
                     authmethod |-> authmethod, authprovider |-> authprovider])
              = Identity(got)
        /\ \A k \in XCbKeys :
              /\ k \in DOMAIN authextra /\ authextra[k] = RouterStamp[k]
              /\ k \in DOMAIN session_details.authextra
              /\ session_details.authextra[k] = RouterStamp[k]
              /\ k \in DOMAIN evts[i].x.authextra /\ evts[i].x.authextra[k] = RouterStamp[k]
        /\ \A k \in DOMAIN got.authextra \ XCbKeys :
              /\ k \in DOMAIN evts[i].x.authextra /\ evts[i].x.authextra[k] = got.authextra[k]
              /\ k # "transport" =>
                    /\ k \in DOMAIN authextra /\ authextra[k] = got.authextra[k]
                    /\ session_details.authextra = authextra

\* an Accept whose authextra sets x_cb_node itself was answered with WELCOME
C14_Witness ==
    /\ SentFrames({"WELCOME"}) # {}
    /\ got.kind = "Accept"
    /\ "x_cb_node" \in DOMAIN got.authextra
    /\ got.authextra["x_cb_node"] # RouterStamp["x_cb_node"]

\* ----------------------------------------------------------------- C15 --
\* what handling HELLO(r, ams, aextra) does in the current state, the PendingAuth
\* it reaches answering `out`
HelloOutcome(r, ams, aextra, out) == onMessage(W, Msg("HELLO", r, ams, aextra, "None", out))
HelloOutcomes == {"Accept", "Challenge", "Deny", "Deferred"}
\* the session can take a HELLO: it is open and not joined
AwaitsHello == phase = "open" /\ session_id = 0

\* the binding the cookie store holds for the join described by details
Binding(details) ==
    [known |-> TRUE, authid |-> details.authid, authrole |-> details.authrole,
     authmethod |-> details.authmethod, authextra |-> details.authextra,
     realm |-> details.realm]

\* the cookie store on joining: the join is bound to the transport's cookie id
\* unless its authmethod is 'cookie' or the transport has no cookie id
CookieWrittenOnJoin ==
    /\ (SentFrames({"WELCOME"}) # {} /\ tp.cbtid # "None"
           /\ session_details.authmethod # "cookie") => cookiestore = Binding(session_details)
    /\ tp.cbtid = "None" => cookiestore = NoCookie

\* the HELLO is answered from the binding of the presented cookie
AcceptedFromCookie(w) ==
    /\ w.got.kind = "Accept"
    /\ w.got.authprovider = "cookie"
    /\ w.got.authid = cookiestore.authid
    /\ w.got.authrole = cookiestore.authrole
    /\ w.got.authmethod = cookiestore.authmethod
    /\ w.got.realm = cookiestore.realm

CookieFirst(ams) ==
    \E i \in DOMAIN ams :
        /\ ams[i] = "cookie"
        /\ \A j \in 1..(i - 1) : ams[j] \in AUTHMETHODS /\ ams[j] \notin tp.auth

Kicked == {evts[i].a : i \in Events("sendClose")}

\* C16: when a joined session whose transport has a cookie id leaves with reason
\* wamp.close.logout, the binding of the cookie id is deleted and sendClose is
\* called on every other transport registered for it, never on its own; when it
\* leaves with another reason, or loses its transport, or has no cookie id, the
\* cookie store is not modified and no transport is closed.
C16_LogoutKicksOthers ==
    [][/\ (session_id # 0 /\ GoodbyeStep) =>
             IF last'.res = "wamp.close.logout" /\ tp.cbtid # "None"
             THEN /\ cookiestore' = NoCookie
                  /\ Kicked' = Range(CookieProtos) \ {"self"}
                  /\ Cardinality(Events("sendClose"))' = Len(CookieProtos) - 1
             ELSE cookiestore' = cookiestore /\ Kicked' = {}
       /\ (session_id # 0 /\ last'.op = "onClose" /\ phase = "open") =>
             cookiestore' = cookiestore /\ Kicked' = {}]_vars

\* a joined session with a cookie id logged out
C16_Witness ==
    /\ JoinedGoodbye
    /\ last.res = "wamp.close.logout"
    /\ Kicked # {}
    /\ ~cookiestore.known

\* ----------------------------------------------------------------- C17 --
\* the answers a PendingAuth gives at once
HelloAnswers == {"Accept", "Challenge", "Deny"}
\* the ABORT frames a handler sent carry `reason`
AbortedWith(w, reason) ==
    /\ Cardinality({i \in DOMAIN w.evts : w.evts[i].t = "send"}) = 1
    /\ \A i \in DOMAIN w.evts :
          w.evts[i].t = "send" => w.evts[i].a = "ABORT" /\ w.evts[i].x = reason

\* C17: a HELLO that names a realm the router does not have is denied with
\* wamp.error.no_such_realm whatever the transport (pre-authenticated or not):
\* the ABORT sent carries that reason and the session is not attached.
C17_UnknownRealmDenied ==
    AwaitsHello =>
        \A r \in HelloRealms \ RouterRealms, ams \in HelloAuthmethods,
           aextra \in HelloAuthextras, out \in HelloAnswers :
            LET w == HelloOutcome(r, ams, aextra, out)
            IN /\ w.got.kind = "Deny"
               /\ w.got.reason = NO_SUCH_REALM
               /\ AbortedWith(w, NO_SUCH_REALM)
               /\ w.attached = attached

\* ----------------------------------------------------------------- C18 --
\* the transport is pre-authenticated for a HELLO offering ams
PreAuthenticated(ams) ==
    /\ tp.authid # "None"
    /\ tp.authmethod = "trusted" \/ tp.authprovider \in Range(ams)
\* the realm onHello works with: the one the transport was assigned, if the HELLO
\* offers 'cookie', else the one the HELLO names
EffectiveRealm(r, ams) ==
    IF tp.authrealm # "None" /\ "cookie" \in Range(ams) THEN tp.authrealm ELSE r

\* C18: a HELLO over a pre-authenticated transport (authid set, and authmethod
\* 'trusted' or authprovider among the offered methods), for a realm of the
\* router: if the transport's authrole exists on the realm the result is Accept
\* with the transport's authid, authrole, authmethod and authprovider, and no
\* PendingAuth is created; otherwise it is Deny with wamp.error.no_such_role.
C18_PreAuthenticatedHello ==
    AwaitsHello =>
        \A r \in HelloRealms, ams \in HelloAuthmethods, aextra \in HelloAuthextras,
           out \in HelloOutcomes :
            (PreAuthenticated(ams) /\ EffectiveRealm(r, ams) \in RouterRealms) =>
                LET w == HelloOutcome(r, ams, aextra, out)
                IN IF tp.authrole \in RealmRoles
                   THEN /\ w.got.kind = "Accept"
                        /\ Identity(w.got) =
                             [realm |-> EffectiveRealm(r, ams), authid |-> tp.authid,
                              authrole |-> tp.authrole, authmethod |-> tp.authmethod,
                              authprovider |-> tp.authprovider]
                        /\ w.pending_auth = pending_auth
                        /\ w.futures = futures
                   ELSE /\ w.got.kind = "Deny"
                        /\ w.got.reason = NO_SUCH_ROLE
                        /\ AbortedWith(w, NO_SUCH_ROLE)
                        /\ w.pending_auth = pending_auth
                        /\ w.attached = attached

\* a pre-authenticated transport whose role is gone was denied
C18_Witness ==
    /\ last.op = "HELLO"
    /\ tp.authid # "None"
    /\ tp.authrole \notin RealmRoles
    /\ got.kind = "Deny"
    /\ got.reason = NO_SUCH_ROLE
    /\ \E i \in SentFrames({"ABORT"}) : evts[i].x = NO_SUCH_ROLE

\* ----------------------------------------------------------------- C19 --
\* C19: a HELLO without authmethods is handled exactly as the same HELLO with
\* authmethods ['anonymous'], on every transport, for every realm and whatever
\* the authenticator answers: same result, same frames and calls, same state.
C19_EmptyAuthmethodsIsAnonymous ==
    AwaitsHello =>
        \A r \in HelloRealms, aextra \in HelloAuthextras, out \in HelloOutcomes :
            HelloOutcome(r, <<>>, aextra, out) = HelloOutcome(r, <<"anonymous">>, aextra, out)

\* a HELLO without authmethods joined as anonymous where authentication is configured
C19_Witness ==
    /\ last.op = "HELLO"
    /\ last.bare
    /\ got.kind = "Accept"
    /\ got.authmethod = "anonymous"
    /\ tp.auth # {}
    /\ SentFrames({"WELCOME"}) # {}

\* ----------------------------------------------------------------- C20 --
\* C20: while the future of an earlier HELLO is unresolved, or the last message
\* was answered with CHALLENGE, a further HELLO starts no authentication, leaves
\* the stored PendingAuth alone and sends nothing; the session is never attached
\* twice, and never under a null session id.
C20_HelloOnlyInInitial ==
    /\ (AwaitsHello /\ (InFlight(futures) # {} \/ last.res = "Challenge")) =>
          \A r \in HelloRealms, ams \in HelloAuthmethods, aextra \in HelloAuthextras,
             out \in HelloOutcomes :
              LET w == HelloOutcome(r, ams, aextra, out)
              IN /\ w.futures = futures
                 /\ w.pending_auth = pending_auth
                 /\ w.evts = <<>>
    /\ Cardinality(attached) <= 1
    /\ \A i \in Events("attach") : evts[i].n # 0

\* ----------------------------------------------------------------- C21 --
\* what handling AUTHENTICATE does in the current state, the PendingAuth
\* answering `out`
AuthenticateOutcome(out) ==
    onMessage(W, Msg("AUTHENTICATE", "None", <<>>, NoExtra, "None", out))
AuthenticateOutcomes == {"Accept", "Deny", "Deferred"}
\* the handler sent WELCOME or attached the session
Welcomed(w) ==
    \E i \in DOMAIN w.evts :
        \/ w.evts[i].t = "send" /\ w.evts[i].a = "WELCOME"
        \/ w.evts[i].t = "attach"

\* C21: when the last handler resolved a HELLO or AUTHENTICATE with Deny on an
\* open transport, it sent ABORT and the session is closed: its session id and
\* pending session id are cleared, and neither a HELLO nor an AUTHENTICATE
\* received next leads to a WELCOME or an attach.
C21_DenyCloses ==
    (phase = "open" /\ got.kind = "Deny") =>
        /\ SentFrames({"ABORT"}) # {}
        /\ session_id = 0
        /\ pending_session_id = 0
        /\ \A r \in HelloRealms, ams \in HelloAuthmethods, aextra \in HelloAuthextras,
              out \in HelloOutcomes : ~Welcomed(HelloOutcome(r, ams, aextra, out))
        /\ \A out \in AuthenticateOutcomes : ~Welcomed(AuthenticateOutcome(out))

\* ----------------------------------------------------------------- C22 --
\* C22: an AUTHENTICATE received by a session that is not joined and holds no
\* PendingAuth is denied whatever a verifier would answer: exactly one ABORT is
\* sent, no authentication is started, and the session gets no session id and
\* no attachment.
C22_AuthenticateWithoutPendingAuth ==
    (AwaitsHello /\ pending_auth = "None") =>
        \A out \in AuthenticateOutcomes :
            LET w == AuthenticateOutcome(out)
            IN /\ w.got.kind = "Deny"
               /\ AbortedWith(w, w.got.reason)
               /\ w.futures = futures
               /\ w.pending_auth = "None"
               /\ w.session_id = 0
               /\ w.attached = attached

\* an AUTHENTICATE arrived before any HELLO and was denied
C22_Witness ==
    /\ last.op = "AUTHENTICATE"
    /\ pending_auth = "None"
    /\ got.kind = "Deny"
    /\ SentFrames({"ABORT"}) # {}
    /\ session_id = 0
    /\ attached = {}

\* ----------------------------------------------------------------- C23 --
\* what handling a message of `kind` does in the current state
MessageOutcome(kind, reason) ==
    onMessage(W, Msg(kind, "realm1", <<>>, NoExtra, reason, "Accept"))
\* the handler did nothing that can be observed, and left the session's id,
\* realm, goodbye flag, identity and attachment as they were
Ignored(w) ==
    /\ w.evts = <<>>
    /\ w.exc = "None"
    /\ w.session_id = session_id
    /\ w.previous_session_id = previous_session_id
    /\ w.realm = realm
    /\ w.router = router
    /\ w.goodbye_sent = goodbye_sent
    /\ w.authid = authid
    /\ w.authrole = authrole
    /\ w.authmethod = authmethod
    /\ w.authprovider = authprovider
    /\ w.authextra = authextra
    /\ w.pending_auth = pending_auth
    /\ w.attached = attached
    /\ w.session_details = session_details
    /\ w.cookiestore = cookiestore
    /\ w.futures = futures

\* C23: a HELLO received while joined, and a message other than HELLO,
\* AUTHENTICATE or ABORT received while not joined, are ignored: no frame is
\* sent, the router is not called (process, attach, detach), onLeave does not
\* run, and session_id, realm, goodbye_sent and the identity are unchanged.
C23_ProtocolViolationIgnored ==
    phase = "open" =>
        /\ session_id # 0 =>
              \A r \in HelloRealms, ams \in HelloAuthmethods, aextra \in HelloAuthextras,
                 out \in HelloOutcomes : Ignored(HelloOutcome(r, ams, aextra, out))
        /\ session_id = 0 =>
              \A kind \in {"GOODBYE", "PUBLISH"}, reason \in CloseReasons :
                  Ignored(MessageOutcome(kind, reason))

\* a joined session received a HELLO and ignored it
C23_Witness ==
    /\ last.op = "HELLO"
    /\ last.res = "None"
    /\ session_id # 0
    /\ session_id \in attached
    /\ evts = <<>>

\* ----------------------------------------------------------------- C24 --
\* the publications of `topic` by the last handler
Published(topic) == {i \in Events("publish") : evts[i].a = topic}

\* C24: a handler that sent WELCOME published wamp.session.on_join exactly once
\* when the realm has a service session (and not at all when it has none), after
\* router.attach returned and after the WELCOME frame; a handler that sent no
\* WELCOME (its HELLO ended in CHALLENGE or ABORT) published no on_join.
C24_OnJoinWithWelcome ==
    /\ \A i \in SentFrames({"WELCOME"}) :
          /\ Cardinality(SentFrames({"WELCOME"})) = 1
          /\ Cardinality(Published("wamp.session.on_join")) = IF realm_session THEN 1 ELSE 0
          /\ \A j \in Published("wamp.session.on_join") :
                /\ i < j
                /\ evts[j].n = evts[i].n
                /\ \E k \in Events("attach") : k < i /\ evts[k].a = "ok" /\ evts[k].n = evts[i].n
    /\ SentFrames({"WELCOME"}) = {} => Published("wamp.session.on_join") = {}

\* a HELLO was welcomed on a realm with a service session
C24_Witness ==
    /\ last.op = "HELLO"
    /\ realm_session
    /\ SentFrames({"WELCOME"}) # {}
    /\ Published("wamp.session.on_join") # {}
    /\ Events("attach") # {}

\* ----------------------------------------------------------------- C25 --
\* the stages of the join chain the last handler started, and their numbers
JoinStageEvents == {i \in Events("stage") : evts[i].a \in Range(JoinStages)}
JoinStagesRun == {evts[i].n : i \in JoinStageEvents}
\* the last stage started: the one the chain waits on, or the last of all
JoinReached == IF jchain = 0 THEN Len(JoinStages) ELSE jchain
\* the stages were started one after the other, in the order of JoinStages
JoinInOrder ==
    \A i, j \in JoinStageEvents :
        /\ evts[i].a = JoinStages[evts[i].n]
        /\ i < j => evts[i].n < evts[j].n

\* C25: send(Hello) of an embedded session gives the session a fresh id and the
\* trusted authid, authrole and authextra, attaches it under that id, and then
\* starts 'join', onJoin and 'ready' in that order; a stage starts only when the
\* one before it has completed (at once, or later when its Deferred fires), a
\* failed stage is logged and the next one still runs, and nothing is raised
\* out of send().
C25_JoinChainOrdered ==
    [][/\ last'.op = "HELLO" =>
             /\ ~Raised'
             /\ session_id' # 0 /\ session_id' \notin attached /\ session_id' \in attached'
             /\ authid' = tp.authid /\ authrole' = tp.authrole /\ authextra' = tp.authextra
             /\ session_details'.session = session_id'
             /\ \E a \in Events("attach")' :
                   /\ evts'[a].n = session_id'
                   /\ \A i \in JoinStageEvents' : a < i
             /\ JoinStagesRun' = 1..JoinReached'
             /\ JoinInOrder'
       /\ last'.op = "resume_join" =>
             /\ ~Raised'
             /\ JoinStagesRun' = (jchain + 1)..JoinReached'
             /\ jchain' = 0 \/ jchain' > jchain
             /\ JoinInOrder'
       /\ last'.op \notin {"HELLO", "resume_join"} => JoinStageEvents' = {} /\ jchain' = jchain]_vars

\* 'join' failed when its Deferred fired, and onJoin and 'ready' ran after it
C25_Witness ==
    /\ last.op = "resume_join"
    /\ last.res = "raise"
    /\ \E i \in Events("logged") : evts[i].a = "join"
    /\ JoinStagesRun = {2, 3}
    /\ jchain = 0
    /\ tp.authextra # NoExtra
    /\ authextra = tp.authextra

\* ----------------------------------------------------------------- C26 --
\* the stages of do_goodbye() the last handler started, and their numbers
GoodbyeStageEvents == {i \in Events("stage") : evts[i].a \in Range(GoodbyeStages)}
GoodbyeStagesRun == {evts[i].n : i \in GoodbyeStageEvents}
GoodbyeReached == IF gchain = 0 THEN Len(GoodbyeStages) ELSE gchain
GoodbyeInOrder ==
    \A i, j \in GoodbyeStageEvents :
        /\ evts[i].a = GoodbyeStages[evts[i].n]
        /\ i < j => evts[i].n < evts[j].n
\* wamp.session.on_leave is published once, after the last stage, when
\* do_goodbye() has run to its end on a realm with a service session, and not
\* otherwise
LeavePublishedAtEnd ==
    /\ Cardinality(Published("wamp.session.on_leave")) =
          IF gchain = 0 /\ realm_session THEN 1 ELSE 0
    /\ \A p \in Published("wamp.session.on_leave") :
          /\ evts[p].n = session_id
          /\ \A i \in GoodbyeStageEvents \cup Events("logged") : i < p

\* C26: send(Goodbye) of an embedded session runs onLeave, the 'leave' observers
\* and the 'disconnect' observers in that order and then publishes
\* wamp.session.on_leave through the realm's service session; a stage that
\* raises is logged, and the stages after it and the publication still happen.
C26_GoodbyeChainOrdered ==
    [][/\ last'.op = "GOODBYE" =>
             /\ ~Raised'
             /\ GoodbyeStagesRun' = 1..GoodbyeReached'
             /\ GoodbyeInOrder'
             /\ LeavePublishedAtEnd'
       /\ last'.op = "resume_goodbye" =>
             /\ ~Raised'
             /\ GoodbyeStagesRun' = (gchain + 1)..GoodbyeReached'
             /\ gchain' = 0 \/ gchain' > gchain
             /\ GoodbyeInOrder'
             /\ LeavePublishedAtEnd'
       /\ last'.op \notin {"GOODBYE", "resume_goodbye"} =>
             /\ GoodbyeStageEvents' = {}
             /\ Published("wamp.session.on_leave")' = {}
             /\ gchain' = gchain]_vars

\* onLeave and the 'leave' observers both raised, and on_leave was published
C26_Witness ==
    /\ last.op = "GOODBYE"
    /\ {evts[i].a : i \in Events("logged")} = {"onLeave", "leave"}
    /\ GoodbyeStagesRun = {1, 2, 3}
    /\ Published("wamp.session.on_leave") # {}
    /\ session_id # 0

\* ----------------------------------------------------------------- C27 --
\* the step ends a joined lifecycle: the session had a session id and loses it
LifecycleEnds == session_id # 0 /\ session_id' # session_id

\* C27: a step that ends a joined lifecycle on a realm with a service session
\* publishes wamp.session.on_leave exactly once, whichever handler it is (peer
\* GOODBYE, onClose, the errback of an authentication in flight), and no other
\* step publishes it: not a later onClose or GOODBYE, and not a handler of a
\* session that did not join.  (Steps in which a call of the handler raised are
\* left aside.)
C27_OnLeaveOncePerLifecycle ==
    [][~Raised' =>
          Cardinality(OnLeavePubs') = IF LifecycleEnds /\ realm_session THEN 1 ELSE 0]_vars

\* ----------------------------------------------------------------- C28 --
\* the handler verified a signature: a PendingAuth answered, or its answer is
\* awaited
Verified(w) == w.futures # futures \/ w.got.kind = "Accept"

\* C28: after the GOODBYE of a joined session, and after a Deny, an AUTHENTICATE
\* received next (without a new HELLO) is not verified against the PendingAuth of
\* the earlier handshake, whatever that PendingAuth would answer, and produces
\* neither a WELCOME nor an attach.
C28_AuthenticateNeedsChallenge ==
    (phase = "open" /\ session_id = 0 /\ (JoinedGoodbye \/ got.kind = "Deny")) =>
        \A out \in AuthenticateOutcomes :
            LET w == AuthenticateOutcome(out)
            IN ~Verified(w) /\ ~Welcomed(w)

\* ----------------------------------------------------------------- C29 --
\* authentication is configured on the transport and it carries no
\* pre-authenticated identity
Scanned == tp.auth # {} /\ tp.authid = "None"
\* the method is one the router knows
Known(m) == m \in AUTHMETHODS \cup extra_auth_methods
\* the method can decide a HELLO: it is configured and available, and for
\* 'cookie' the transport presents a cookie id that has a binding
Usable(m) ==
    /\ m \in tp.auth
    /\ m \in AUTHMETHOD_MAP \cup extra_auth_methods
    /\ m = "cookie" => (tp.hdr_cbtid # "None" /\ cookiestore.known)
\* the methods offered before position i are known ones that cannot decide
SkippedBefore(ams, i) == \A j \in 1..(i - 1) : Known(ams[j]) /\ ~Usable(ams[j])

\* C29: with authentication configured and no pre-authenticated identity, the
\* first offered method that is configured and available decides the HELLO, the
\* known methods before it being skipped (unconfigured, unavailable, or 'cookie'
\* without a binding): a PendingAuth of that method is stored and the result of
\* its hello() is the result, Deny included, or its Deferred is awaited; 'cookie'
\* with a binding is accepted from the binding.  When every offered method is
\* skipped the result is Deny with wamp.error.no_auth_method.
C29_ScanInClientOrder ==
    (AwaitsHello /\ Scanned) =>
        \A r \in HelloRealms, ams \in HelloAuthmethods \ {<<>>}, aextra \in HelloAuthextras,
           out \in HelloOutcomes :
            LET w == HelloOutcome(r, ams, aextra, out)
            IN /\ \A i \in DOMAIN ams :
                    (SkippedBefore(ams, i) /\ Known(ams[i]) /\ Usable(ams[i])) =>
                        IF ams[i] = "cookie"
                        THEN AcceptedFromCookie(w) /\ w.pending_auth = pending_auth
                        ELSE /\ w.pending_auth = ams[i]
                             /\ IF out = "Deferred"
                                THEN /\ w.evts = <<>>
                                     /\ w.futures =
                                          [futures EXCEPT ![[kind |-> "hello",
                                                             method |-> ams[i]]] = @ + 1]
                                ELSE /\ w.got = PendingHello(ams[i], HelloAnswer(r, out))
                                     /\ w.futures = futures
               /\ SkippedBefore(ams, Len(ams) + 1) =>
                    /\ w.got.kind = "Deny"
                    /\ w.got.reason = NO_AUTH_METHOD
                    /\ AbortedWith(w, NO_AUTH_METHOD)
                    /\ w.pending_auth = pending_auth
                    /\ w.futures = futures

\* every method of a HELLO was skipped where authentication is configured
C29_Witness ==
    /\ last.op = "HELLO"
    /\ Scanned
    /\ got.kind = "Deny"
    /\ got.reason = NO_AUTH_METHOD
    /\ got.message = CANNOT_AUTHENTICATE_2
    /\ \E i \in SentFrames({"ABORT"}) : evts[i].x = NO_AUTH_METHOD

\* ----------------------------------------------------------------- C30 --
\* C30 (as stated): on a transport that is not pre-authenticated, a HELLO that
\* offers an unknown authmethod is denied with the message 'invalid authmethod',
\* with authentication configured and without.
C30_UnknownMethodDenied ==
    (AwaitsHello /\ tp.authid = "None") =>
        \A r \in HelloRealms, ams \in HelloAuthmethods, aextra \in HelloAuthextras,
           out \in HelloOutcomes :
            (\E i \in DOMAIN ams : ~Known(ams[i])) =>
                LET w == HelloOutcome(r, ams, aextra, out)
                IN w.got.kind = "Deny" /\ w.got.message = INVALID_AUTHMETHOD

\* C30 (amended): on a transport that is not pre-authenticated, with
\* authentication configured, a HELLO is denied with the message 'invalid
\* authmethod' (and the default reason wamp.error.not_authorized) when the scan
\* reaches an unknown method, every method offered before it being known and
\* skipped.  Without authentication configured the offered methods are not
\* validated: the message is never 'invalid authmethod', and a HELLO offering
\* methods without 'anonymous' among them is denied with
\* wamp.error.no_auth_method.
C30_UnknownMethodReached ==
    (AwaitsHello /\ tp.authid = "None") =>
        \A r \in HelloRealms, ams \in HelloAuthmethods, aextra \in HelloAuthextras,
           out \in HelloOutcomes :
            LET w == HelloOutcome(r, ams, aextra, out)
            IN /\ tp.auth # {} =>
                    \A i \in DOMAIN ams :
                        (SkippedBefore(ams, i) /\ ~Known(ams[i])) =>
                            /\ w.got.kind = "Deny"
                            /\ w.got.message = INVALID_AUTHMETHOD
                            /\ w.got.reason = NOT_AUTHORIZED
                            /\ AbortedWith(w, NOT_AUTHORIZED)
                            /\ w.pending_auth = pending_auth
                            /\ w.futures = futures
               /\ tp.auth = {} =>
                    /\ w.got.message # INVALID_AUTHMETHOD
                    /\ (ams # <<>> /\ "anonymous" \notin Range(ams)) =>
                          /\ w.got.kind = "Deny"
                          /\ w.got.reason = NO_AUTH_METHOD
                          /\ w.got.message = CANNOT_AUTHENTICATE_1

\* a HELLO was denied for an unknown method where authentication is configured
C30_Witness ==
    /\ last.op = "HELLO"
    /\ Scanned
    /\ got.kind = "Deny"
    /\ got.message = INVALID_AUTHMETHOD
    /\ SentFrames({"ABORT"}) # {}
    /\ session_id = 0

\* ----------------------------------------------------------------- C31 --
\* C31: when the future of a HELLO or AUTHENTICATE failed while the transport
\* was open, the errback raised nothing, sent exactly one frame, an ABORT with
\* reason wamp.error.authorization_failed, and left session_id,
\* pending_session_id and previous_session_id None and the session not attached.
C31_ErrbackAborts ==
    (last.op \in AuthErrbacks /\ phase = "open") =>
        /\ ~Raised
        /\ Cardinality(Sends) = 1
        /\ \A i \in Sends : evts[i].a = "ABORT" /\ evts[i].x = AUTHORIZATION_FAILED
        /\ session_id = 0
        /\ pending_session_id = 0
        /\ previous_session_id = 0
        /\ attached = {}

\* ----------------------------------------------------------------- C32 --
\* the router-side leave processing the last handler did
SessionLefts == Events("session_left")
TestamentsProcessed == {i \in Events("process") : evts[i].a \in {"detached", "destroyed"}}
\* the testaments are processed before the router is told that the session left
LeaveProcessingInOrder ==
    \A i \in TestamentsProcessed, j \in SessionLefts : i < j

\* C32: the router-side leave processing of onLeave (router.process of every
\* testament, then router._session_left) runs exactly once in a step that ends
\* a joined lifecycle and in no other step: not for a peer ABORT or an onClose
\* after the session left through GOODBYE, and not for a session that never
\* joined.  (Steps in which a call of the handler raised are left aside.)
C32_LeaveProcessingOnce ==
    [][~Raised' =>
          /\ Cardinality(SessionLefts') = IF LifecycleEnds THEN 1 ELSE 0
          /\ Cardinality(TestamentsProcessed') =
                 IF LifecycleEnds THEN testaments.detached + testaments.destroyed ELSE 0
          /\ LeaveProcessingInOrder']_vars

\* ----------------------------------------------------------------- C33 --
\* C33: every router.process(session, msg) of the last handler, for a routed
\* inbound message as for a testament processed in onLeave, was called while the
\* session was attached to the router and had a session id.
C33_ProcessOnlyWhileAttached ==
    \A i \in Events("process") : evts[i].att /\ evts[i].sid # 0

\* ----------------------------------------------------------------- C34 --
\* the last handler deleted the binding of the cookie id (cs.delAuth)
CookieDeleted == Events("delAuth") # {}

\* C34: the binding of the transport's cookie id is deleted, and other transports
\* of the cookie id are closed, only by the GOODBYE of a joined session; no
\* message to a session that is not joined (never authenticated, or already
\* left), in particular no ABORT with reason wamp.close.logout, does either.
C34_LogoutOnlyByJoinedGoodbye ==
    [][(CookieDeleted' \/ Kicked' # {}) => (session_id # 0 /\ GoodbyeStep)]_vars

\* ----------------------------------------------------------------- C35 --
\* the GOODBYE frames the last handler sent
Goodbyes == SentFrames({"GOODBYE"})

\* C35: leave() sends one GOODBYE and sets goodbye_sent when the flag was false,
\* and otherwise raises SessionNotReady and sends nothing; the GOODBYE of a
\* joined peer is answered with one GOODBYE when the flag was false and not
\* answered when it was true; no step sends a GOODBYE while the flag is true,
\* every step that sends one sets it, and the flag stays true as long as the
\* session keeps its id.  Hence at most one GOODBYE is sent while the session
\* holds one id, however leave() and the peer's GOODBYE interleave.
C35_OneGoodbyePerLifecycle ==
    [][/\ last'.op = "leave" =>
              IF goodbye_sent
              THEN /\ Sends' = {}
                   /\ \E i \in Events("raise")' : evts'[i].a = "SessionNotReady"
                   /\ goodbye_sent'
              ELSE /\ Cardinality(Goodbyes') = 1
                   /\ Sends' = Goodbyes'
                   /\ goodbye_sent'
       /\ (session_id # 0 /\ GoodbyeStep) =>
              /\ Cardinality(Goodbyes') = IF goodbye_sent THEN 0 ELSE 1
              /\ goodbye_sent'
       /\ Goodbyes' # {} =>
              /\ Cardinality(Goodbyes') = 1
              /\ ~goodbye_sent
              /\ goodbye_sent'
       /\ (goodbye_sent /\ session_id # 0 /\ session_id' = session_id) => goodbye_sent']_vars

\* the router asked the session to leave, and the GOODBYE of the peer that
\* followed was not answered
C35_Witness ==
    /\ JoinedGoodbye
    /\ Goodbyes = {}
    /\ goodbye_sent
    /\ previous_session_id # 0

\* ----------------------------------------------------------------- C36 --

\* the wamp.session.on_stats records the last handler published
StatsPubs == {i \in Events("publish") : evts[i].a = "wamp.session.on_stats"}
FirstFlag(i) == evts[i].x \in {"first", "first,last"}
LastFlag(i) == evts[i].x \in {"last", "first,last"}
\* the step joins the session
JoinStep == session_id = 0 /\ session_id' # 0

\* C36: on a realm with a 'stats' block, a record published by a step carries
\* first = true exactly when it is the first record of the session's lifecycle
\* (none was published since the join, and none earlier in the step), and
\* last = true exactly when it is the final record, published when the
\* transport closes; so a session with trigger_on_join false and no interim
\* record gets one record with first = true and last = true.
C36_FirstAndLastFlags ==
    [][realm_stats.configured =>
          \A i \in StatsPubs' :
              /\ FirstFlag(i)' <=> /\ JoinStep \/ ~stats_has_triggered_first
                                   /\ \A j \in StatsPubs' : j >= i
              /\ LastFlag(i)' <=> /\ last'.op = "onClose"
                                  /\ \A j \in StatsPubs' : j <= i]_vars

\* ----------------------------------------------------------------- C37 --
\* C37: every wamp.session.on_stats record is published on a realm whose
\* configuration has a 'stats' block and for a session that is joined at that
\* moment: a session on a realm without one, and a session that left through
\* GOODBYE before its transport closed, cause no on_stats publication.
C37_StatsOnlyForJoinedOnStatsRealm ==
    \A i \in StatsPubs : realm_stats.configured /\ evts[i].sid # 0

\* ----------------------------------------------------------------- C38 --
\* what send() did with the message: the actions the last handler took
SendActions ==
    (IF Events("attach") # {} THEN {"join"} ELSE {})
        \cup (IF Events("process") # {} THEN {"process"} ELSE {})
        \cup (IF Events("onMessage") # {} THEN {"onMessage"} ELSE {})
        \cup (IF GoodbyeStageEvents # {} THEN {"leave"} ELSE {})
        \cup (IF Raised THEN {"raise"} ELSE {})
\* the action the message kind calls for
ExpectedAction(msg) ==
    IF msg = "HELLO" THEN "join"
    ELSE IF msg \in {"PUBLISH", "SUBSCRIBE", "UNSUBSCRIBE", "CALL", "YIELD", "REGISTER",
                     "UNREGISTER", "CANCEL", "ERROR_INVOCATION"} THEN "process"
    ELSE IF msg \in {"EVENT", "INVOCATION", "RESULT", "PUBLISHED", "SUBSCRIBED",
                     "UNSUBSCRIBED", "REGISTERED", "UNREGISTERED", "ERROR_CALL",
                     "ERROR_CANCEL", "ERROR_REGISTER", "ERROR_UNREGISTER", "ERROR_PUBLISH",
                     "ERROR_SUBSCRIBE", "ERROR_UNSUBSCRIBE"} THEN "onMessage"
    ELSE IF msg = "GOODBYE" THEN "leave"
    ELSE "raise"

\* C38: send() takes exactly one action for a message, the one its kind calls
\* for: Hello joins, the application-to-router kinds and an Error for an
\* Invocation go to router.process (once, with that message), the
\* router-to-application kinds and an Error for a Call, Cancel, Register,
\* Unregister, Publish, Subscribe or Unsubscribe go to session.onMessage (once),
\* Goodbye starts the leave sequence, and every other kind, an Error with another
\* request type included, raises an exception and does nothing else.
C38_SendClassifies ==
    last.op \in AllMessages =>
        /\ SendActions = {ExpectedAction(last.op)}
        /\ \A i \in Events("process") \cup Events("onMessage") : evts[i].a = last.op
        /\ Cardinality(Events("process") \cup Events("onMessage")) <= 1
        /\ Raised => (Len(evts) = 1 /\ evts[1].a = "Exception")

\* an Error whose request type is none of the routed ones was handed to send()
C38_Witness ==
    /\ last.op = "ERROR_EVENT"
    /\ Raised
    /\ Events("process") \cup Events("onMessage") = {}

\* ----------------------------------------------------------------- C39 --
\* C39: close() of an embedded session's transport never detaches the session
\* itself: when the session is attached it schedules one detach with the reactor
\* and otherwise schedules none, and in the step of close(), as of any handler
\* that calls it, router.detach is not called and the attachment table is
\* unchanged; the scheduled detach, run later by the reactor, removes the session
\* if it is still attached, and if it is not (close() was called twice) the
\* NotAttached error is caught: no exception leaves the call.
C39_CloseDetachesLater ==
    [][/\ last'.op = "close" =>
              /\ calls' = calls + (IF router # "None" /\ session_id \in attached THEN 1 ELSE 0)
              /\ ~Raised'
       /\ last'.op # "detach" =>
              /\ Events("detach")' = {}
              /\ attached \subseteq attached'
       /\ last'.op = "detach" =>
              /\ last'.res = "None"
              /\ calls' = calls - 1
              /\ IF session_id \in attached
                 THEN attached' = attached \ {session_id}
                 ELSE /\ attached' = attached
                      /\ \E i \in Events("detach")' : evts'[i].a = "NotAttached"]_vars

\* close() was called twice while the session was attached, and the second of
\* the two scheduled calls found the session detached
C39_Witness ==
    /\ last.op = "detach"
    /\ \E i \in Events("detach") : evts[i].a = "NotAttached"
    /\ last.res = "None"

\* ----------------------------------------------------------------- C40 --
\* the wrappers the last handler constructed, and what it returned
Constructed == {evts[i].n : i \in Events("construct")}
Returned == {evts[i].n : i \in Events("return")}
ConnectFirings == {i \in Events("stage") : evts[i].a \in {"connect", "onConnect"}}
Registered == {s \in AppSessions : app_sessions[s] # NoWrapper}

\* C40: add() of a registered application session returns the wrapper it has
\* and constructs none (no 'connect' or onConnect firing, the registry
\* unchanged); add() of an unregistered one constructs one new wrapper, registers
\* and returns it; remove() of a registered session calls its disconnect() once
\* and deletes its entry only; remove() of an unregistered session changes
\* nothing.  No two application sessions share a wrapper.
C40_OneWrapperPerSession ==
    [][/\ last'.op = "add" =>
              LET s == last'.res
              IN IF s \in Registered
                 THEN /\ app_sessions' = app_sessions
                      /\ wrappers' = wrappers
                      /\ Constructed' = {}
                      /\ ConnectFirings' = {}
                      /\ Returned' = {app_sessions[s].id}
                 ELSE /\ Constructed' = {wrappers + 1}
                      /\ wrappers' = wrappers + 1
                      /\ Cardinality(ConnectFirings') = 2
                      /\ app_sessions'[s].id = wrappers + 1
                      /\ Returned' = {wrappers + 1}
                      /\ \A t \in AppSessions \ {s} : app_sessions'[t] = app_sessions[t]
       /\ last'.op = "remove" =>
              LET s == last'.res
              IN /\ Cardinality(Events("disconnect")') = IF s \in Registered THEN 1 ELSE 0
                 /\ \A i \in Events("disconnect")' :
                        evts'[i].a = s /\ evts'[i].n = app_sessions[s].id
                 /\ app_sessions'[s] = NoWrapper
                 /\ \A t \in AppSessions \ {s} : app_sessions'[t] = app_sessions[t]
                 /\ wrappers' = wrappers
                 /\ Constructed' = {}
       /\ \A s, t \in Registered' : app_sessions'[s].id = app_sessions'[t].id => s = t]_vars

\* an application session that was removed is added again and gets a new wrapper
C40_Witness ==
    /\ last.op = "add"
    /\ Constructed # {}
    /\ app_sessions[last.res].id = wrappers
    /\ wrappers > Cardinality(Registered)
    /\ \A s \in Registered : app_sessions[s].id >= app_sessions[last.res].id

====
